---- MODULE Spec2Model ----
(***************************************************************************)
(* todobi (src/main.go): the Bubble Tea model of the task manager, its     *)
(* local store (~/.todobi.conf), the remote store (the todobi-sync         *)
(* repository) and the background push / pull commands.                    *)
(*                                                                         *)
(* Time is a counter: time.Time{} is 0, every handler that stamps data     *)
(* with time.Now() first advances the clock.  A *Config is modelled by     *)
(* its value; the one place where the pointer is shared with a background  *)
(* command (pullFromGitHubCmd(m.config)) is modelled by the alias / lu     *)
(* fields of the command: while alias holds the goroutine reads the        *)
(* LastUpdate m.config has at that moment.  The read is not synchronised   *)
(* with the writes of Update; it is taken to return the value before or    *)
(* after a write, which the interleaving of the steps gives.               *)
(*                                                                         *)
(* Of the main views this module has the list view: the keys of the        *)
(* sync, of the conflict resolution and of the first-run setup, "r" and    *)
(* the toggling of a task.                                                 *)
(***************************************************************************)
EXTENDS Integers, Sequences, FiniteSets, Bags, TLC

\* The clock stops at MaxTime: handlers that need time.Now() are disabled then.
MaxTime == 3
\* Background commands (tea.Cmd goroutines or their undelivered messages)
\* that may be alive at once.
MaxInFlight == 2

VARIABLES
    now,             \* the wall clock
    disk,            \* content of ~/.todobi.conf
    repo,            \* the todobi-sync repository on GitHub
    config,          \* m.config
    mode,            \* m.mode
    prevMode,        \* m.prevMode
    listTasks,       \* the tasks m.list / m.completedList were last filled from
    statusMsg,       \* m.statusMsg
    configChanged,   \* m.configChanged
    syncInProgress,  \* m.syncInProgress
    pullInProgress,  \* m.pullInProgress
    remoteConfig,    \* m.remoteConfig
    ui,              \* the fields of m that the forms and selections use
    firstRunStep,    \* m.firstRunStep
    firstRunError,   \* m.firstRunError
    cmds             \* the background commands and their result messages

vars == <<now, disk, repo, config, mode, prevMode, listTasks,
          statusMsg, configChanged, syncInProgress, pullInProgress,
          remoteConfig, ui, firstRunStep, firstRunError, cmds>>

----------------------------------------------------------------------------
(* Data: Task, Category, Config                                            *)

\* a nil *Config
Nil == [nil |-> TRUE]

\* Priority (iota)
P0Critical == 0
P1High == 1
P2Medium == 2
P3Low == 3

Category(id, name) == [ID |-> id, Name |-> name]

Task(id, content, cat, prio, done, created, completed) ==
    [ID |-> id, Content |-> content, CategoryID |-> cat, Priority |-> prio,
     Done |-> done, CreatedAt |-> created, CompletedAt |-> completed,
     Notes |-> ""]

Config(cats, tasks, lu, version, setup) ==
    [Categories |-> cats, Tasks |-> tasks, LastUpdate |-> lu,
     Version |-> version, GitHubSetupComplete |-> setup]

\* the forms and selections when none is open: m.editingTask,
\* m.taskToDelete, the values of m.taskInputs (content, priority),
\* m.formFocus, the value of m.notesTextarea, m.categoryToDelete,
\* m.editingCategory, the value of m.categoryInput, the items of
\* m.categoryList
InitialUI ==
    [editingTask |-> Nil, taskToDelete |-> Nil,
     taskInputs |-> <<"", "">>, formFocus |-> 0, notesTextarea |-> "",
     categoryToDelete |-> Nil, editingCategory |-> Nil,
     categoryInput |-> "", categoryList |-> <<>>]

\* viewMode
listView == "listView"
completedView == "completedView"
syncConfirmView == "syncConfirmView"
pullConfirmView == "pullConfirmView"
firstRunView == "firstRunView"
taskFormView == "taskFormView"
editTaskView == "editTaskView"
taskDetailView == "taskDetailView"
deleteConfirmView == "deleteConfirmView"
categoryFormView == "categoryFormView"
categoryListView == "categoryListView"

\* firstRunStep
welcomeStep == "welcomeStep"
hasRepoPromptStep == "hasRepoPromptStep"
createRepoPromptStep == "createRepoPromptStep"
pullingStep == "pullingStep"
pushingStep == "pushingStep"
completeStep == "completeStep"

\* defaultConfig(): LastUpdate is left at the zero time, CreatedAt is time.Now()
defaultConfig(t) ==
    Config(<<Category("work", "Work"), Category("personal", "Personal")>>,
           <<Task("1", "Press 'C' to create category", "work", P1High, FALSE, t, 0),
             Task("2", "Press 'T' to create task", "work", P2Medium, FALSE, t, 0),
             Task("3", "Press 'v' to view completed tasks", "personal", P3Low, FALSE, t, 0)>>,
           0, "1.3.0", FALSE)

\* saveConfig: stamps cfg.LastUpdate with time.Now() and writes the file; the
\* value returned is both the new *cfg and the new file content.
saveConfig(cfg, t) == [cfg EXCEPT !.LastUpdate = t]

SetOf(seq) == {seq[i] : i \in DOMAIN seq}

\* every order in which a Go map with the values S may be ranged over
Orderings(S) ==
    {seq \in [1..Cardinality(S) -> S] : SetOf(seq) = S}

\* map[string]T: m[k] = v
MapPut(m, k, v) ==
    [x \in DOMAIN m \cup {k} |-> IF x = k THEN v ELSE m[x]]

EmptyMap == [x \in {} |-> Nil]

\* for _, cat := range cats { categoryMap[cat.ID] = cat }
RECURSIVE PutCategories(_, _)
PutCategories(m, cats) ==
    IF cats = <<>> THEN m
    ELSE PutCategories(MapPut(m, Head(cats).ID, Head(cats)), Tail(cats))

\* for _, task := range local.Tasks { taskMap[task.ID] = task }
RECURSIVE PutLocalTasks(_, _)
PutLocalTasks(m, tasks) ==
    IF tasks = <<>> THEN m
    ELSE PutLocalTasks(MapPut(m, Head(tasks).ID, Head(tasks)), Tail(tasks))

\* a faulty variant of the loop over remote.Tasks: the remote task always
\* replaces the local one
PutRemoteTasksAlways(m, tasks) == PutLocalTasks(m, tasks)

\* a faulty variant: the remote task never replaces a local one
RECURSIVE PutRemoteTasksNever(_, _)
PutRemoteTasksNever(m, tasks) ==
    IF tasks = <<>> THEN m
    ELSE LET task == Head(tasks)
         IN  PutRemoteTasksNever(IF task.ID \in DOMAIN m THEN m
                                 ELSE MapPut(m, task.ID, task),
                                 Tail(tasks))

\* a faulty variant: the remote task replaces a local one created at the
\* same time too
RECURSIVE PutRemoteTasksOnTie(_, _)
PutRemoteTasksOnTie(m, tasks) ==
    IF tasks = <<>> THEN m
    ELSE LET task == Head(tasks)
             m2 == IF task.ID \in DOMAIN m
                   THEN IF task.CreatedAt >= m[task.ID].CreatedAt
                        THEN MapPut(m, task.ID, task)
                        ELSE m
                   ELSE MapPut(m, task.ID, task)
         IN  PutRemoteTasksOnTie(m2, Tail(tasks))

\* the loop over remote.Tasks: a remote task replaces an existing one only
\* if its CreatedAt is After the existing one's
RECURSIVE PutRemoteTasks(_, _)
PutRemoteTasks(m, tasks) ==
    IF tasks = <<>> THEN m
    ELSE LET task == Head(tasks)
             m2 == IF task.ID \in DOMAIN m
                   THEN IF task.CreatedAt > m[task.ID].CreatedAt
                        THEN MapPut(m, task.ID, task)
                        ELSE m
                   ELSE MapPut(m, task.ID, task)
         IN  PutRemoteTasks(m2, Tail(tasks))

\* a faulty variant: the local category overrides the remote one
categoryMapLocalWins(local, remote) ==
    PutCategories(PutCategories(EmptyMap, remote.Categories), local.Categories)

categoryMap(local, remote) ==
    PutCategories(PutCategories(EmptyMap, local.Categories), remote.Categories)

\* a faulty variant: the tasks of the remote side are left out
taskMapLocalOnly(local, remote) == PutLocalTasks(EmptyMap, local.Tasks)

taskMap(local, remote) ==
    PutRemoteTasks(PutLocalTasks(EmptyMap, local.Tasks), remote.Tasks)

MapValues(m) == {m[k] : k \in DOMAIN m}

\* a faulty variant: the two sides are appended, without the maps
mergeConfigsAppending(local, remote, t) ==
    {Config(local.Categories \o remote.Categories,
            local.Tasks \o remote.Tasks, t, local.Version, FALSE)}

\* a faulty variant: Version is taken from the remote side
mergeConfigsRemoteVersion(local, remote, t) ==
    {Config(cs, ts, t, remote.Version, FALSE) :
        cs \in Orderings(MapValues(categoryMap(local, remote))),
        ts \in Orderings(MapValues(taskMap(local, remote)))}

\* mergeConfigs(local, remote) at time t: the set of Configs it may return,
\* one for each order in which the two maps are ranged over.  The merged
\* Config is built from Version and LastUpdate only: GitHubSetupComplete is
\* left at its zero value.
mergeConfigs(local, remote, t) ==
    {Config(cs, ts, t, local.Version, FALSE) :
        cs \in Orderings(MapValues(categoryMap(local, remote))),
        ts \in Orderings(MapValues(taskMap(local, remote)))}

\* a faulty variant of the comparison: any two timestamps that differ
HasConflictWhenDifferent(localLU, remoteLU) == localLU # remoteLU

\* localConfig.LastUpdate.After(remoteConfig.LastUpdate), and then
\* !localConfig.LastUpdate.Equal(remoteConfig.LastUpdate)
HasConflict(localLU, remoteLU) ==
    IF localLU > remoteLU THEN ~(localLU = remoteLU) ELSE FALSE

\* the index of the first task with this ID, 0 if there is none
IndexOfID(tasks, id) ==
    IF \E i \in DOMAIN tasks : tasks[i].ID = id
    THEN CHOOSE i \in DOMAIN tasks :
            /\ tasks[i].ID = id
            /\ \A j \in DOMAIN tasks : tasks[j].ID = id => i <= j
    ELSE 0

\* a faulty variant of the loop: a reopened task keeps its CompletedAt
ToggledTasksKeepingCompletedAt(tasks, id, t) ==
    LET i == IndexOfID(tasks, id)
    IN  IF i = 0 THEN tasks
        ELSE [tasks EXCEPT ![i] =
                [@ EXCEPT !.Done = ~tasks[i].Done,
                          !.CompletedAt = IF ~tasks[i].Done THEN t ELSE @]]

\* the loop of toggleTask over m.config.Tasks
ToggledTasks(tasks, id, t) ==
    LET i == IndexOfID(tasks, id)
    IN  IF i = 0 THEN tasks
        ELSE [tasks EXCEPT ![i] =
                [@ EXCEPT !.Done = ~tasks[i].Done,
                          !.CompletedAt = IF ~tasks[i].Done THEN t ELSE 0]]

----------------------------------------------------------------------------
(* The remote store                                                        *)

RepoAbsent == [kind |-> "absent", doc |-> Nil]
\* the repository exists and holds no .todobi.conf (just created)
RepoEmpty == [kind |-> "empty", doc |-> Nil]
\* .todobi.conf in the repository is not JSON
RepoGarbage == [kind |-> "garbage", doc |-> Nil]
RepoDoc(d) == [kind |-> "doc", doc |-> d]

\* The Config an earlier session of this machine left in ~/.todobi.conf.
SavedConfig ==
    Config(<<Category("work", "Work"), Category("personal", "Personal")>>,
           <<Task("1", "write report", "work", P1High, FALSE, 1, 0),
             Task("2", "buy milk", "personal", P2Medium, TRUE, 1, 2)>>,
           2, "1.3.0", TRUE)

\* What another machine may have pushed: it renamed a category, completed
\* task 1 and has a task of its own.
OtherMachineConfig(lu) ==
    Config(<<Category("work", "Office"), Category("personal", "Personal")>>,
           <<Task("1", "write report", "work", P1High, TRUE, 1, 1),
             Task("3", "call bank", "personal", P0Critical, FALSE, lu, 0)>>,
           lu, "1.3.0", TRUE)

RemoteConfigs == {OtherMachineConfig(1), OtherMachineConfig(3)}

\* the repository when the program starts
InitialRepos ==
    {RepoAbsent, RepoGarbage} \cup {RepoDoc(d) : d \in RemoteConfigs}

----------------------------------------------------------------------------
(* Background commands.  cmds is the bag of the tea.Cmd goroutines that    *)
(* run (pc is where the goroutine stands) and, at pc = "done", of the      *)
(* messages they returned and Update has not processed yet.                *)

Cmd(kind, pc) ==
    [kind |-> kind, pc |-> pc,
     alias |-> FALSE, lu |-> 0,            \* pull: the localConfig pointer
     written |-> FALSE,                    \* push, history (see Written)
     success |-> FALSE, error |-> "",      \* the message
     remoteConfig |-> Nil, hasConflict |-> FALSE]

InFlight == BagCardinality(cmds)

\* the model's cap on the commands alive at once; the program has none
CanStart == InFlight < MaxInFlight

Put(B, c) == B (+) SetToBag({c})

Take(B, c) == B (-) SetToBag({c})

\* syncToGitHubCmd(): the command the handler returns
syncToGitHubCmd == Cmd("push", "clone")

\* pullFromGitHubCmd(m.config): the closure keeps the pointer
pullFromGitHubCmd == [Cmd("pull", "run") EXCEPT !.alias = TRUE]

\* how many commands of the bag B are among those of the set S
RECURSIVE Copies(_, _)
Copies(B, S) ==
    IF S = {} THEN 0
    ELSE LET c == CHOOSE x \in S : TRUE
         IN  B[c] + Copies(B, S \ {c})

\* m.config is made to point to another Config: a running pull keeps the
\* old one, which nothing writes any more
Detach(c, old) ==
    IF c.kind = "pull" /\ c.alias
    THEN [c EXCEPT !.alias = FALSE, !.lu = old.LastUpdate]
    ELSE c

Detached(B, old) ==
    [d \in {Detach(c, old) : c \in BagToSet(B)} |->
        Copies(B, {c \in BagToSet(B) : Detach(c, old) = d})]

\* history: m.config or the file was assigned while a push was under way
\* (after its command was made, before it published)
MarkWritten(c) ==
    IF c.kind = "push" /\ c.pc # "done"
    THEN [c EXCEPT !.written = TRUE]
    ELSE c

Written(B) ==
    [d \in {MarkWritten(c) : c \in BagToSet(B)} |->
        Copies(B, {c \in BagToSet(B) : MarkWritten(c) = d})]

----------------------------------------------------------------------------
(* main()                                                                  *)

\* main(): loadConfig, or defaultConfig and saveConfig when there is no file;
\* the model starts in firstRunView until GitHubSetupComplete
Init ==
    /\ now = 2
    /\ repo \in InitialRepos
    /\ disk \in {SavedConfig, saveConfig(defaultConfig(2), 2)}
    /\ config = disk
    /\ mode = IF ~disk.GitHubSetupComplete THEN firstRunView ELSE listView
    /\ prevMode = listView
    /\ listTasks = config.Tasks
    /\ statusMsg = ""
    /\ configChanged = FALSE
    /\ syncInProgress = FALSE
    /\ pullInProgress = FALSE
    /\ remoteConfig = Nil
    /\ firstRunStep = welcomeStep
    /\ firstRunError = ""
    /\ cmds = EmptyBag
    /\ ui = InitialUI

----------------------------------------------------------------------------
(* The environment                                                         *)

\* another machine pushes its Config
RemoteChange ==
    /\ \E d \in RemoteConfigs : RepoDoc(d) # repo /\ repo' = RepoDoc(d)
    /\ UNCHANGED <<now, disk, config, mode, prevMode,
                   listTasks, statusMsg, configChanged, syncInProgress,
                   pullInProgress, remoteConfig, firstRunStep, firstRunError,
                   cmds>>
    /\ UNCHANGED ui

----------------------------------------------------------------------------
(* Update: tea.KeyMsg in the main views                                    *)

InMainView == mode \in {listView, completedView}

\* "r": loadConfig, m.config = cfg, updateLists
KeyReload ==
    /\ InMainView
    /\ config' = disk
    /\ listTasks' = config'.Tasks
    /\ statusMsg' = "Config reloaded"
    /\ cmds' = Written(Detached(cmds, config))
    /\ UNCHANGED <<now, disk, repo, mode, prevMode,
                   configChanged, syncInProgress, pullInProgress,
                   remoteConfig, firstRunStep, firstRunError>>
    /\ UNCHANGED ui

\* "v": the completed list, or back to the list
KeyCompleted ==
    /\ InMainView
    /\ IF mode = completedView
       THEN mode' = listView /\ UNCHANGED prevMode
       ELSE prevMode' = mode /\ mode' = completedView
    /\ UNCHANGED <<now, disk, repo, config, listTasks,
                   statusMsg, configChanged, syncInProgress, pullInProgress,
                   remoteConfig, firstRunStep, firstRunError, cmds>>
    /\ UNCHANGED ui

\* the items of m.completedList (done) or m.list (not done)
ListItems(done) == {t \in SetOf(listTasks) : t.Done = done}

\* "x", " ": toggleTask on the selected item, saveConfigAndMarkChanged,
\* updateLists
toggleTask ==
    /\ InMainView
    /\ now < MaxTime
    /\ \E sel \in ListItems(mode = completedView) :
        LET i == IndexOfID(config.Tasks, sel.ID)
            tasks == ToggledTasks(config.Tasks, sel.ID, now + 1)
        IN  /\ now' = now + 1
            /\ config' = saveConfig([config EXCEPT !.Tasks = tasks], now')
            /\ disk' = config'
            /\ configChanged' = TRUE
            /\ listTasks' = config'.Tasks
            /\ statusMsg' = IF i = 0 THEN statusMsg
                            ELSE IF tasks[i].Done THEN "Task completed"
                                 ELSE "Task reopened"
    /\ cmds' = Written(cmds)
    /\ UNCHANGED <<repo, mode, prevMode, syncInProgress,
                   pullInProgress, remoteConfig, firstRunStep, firstRunError>>
    /\ UNCHANGED ui

\* "G"
KeyPush ==
    /\ InMainView
    /\ prevMode' = mode
    /\ mode' = syncConfirmView
    /\ UNCHANGED <<now, disk, repo, config, listTasks,
                   statusMsg, configChanged, syncInProgress, pullInProgress,
                   remoteConfig, firstRunStep, firstRunError, cmds>>
    /\ UNCHANGED ui

\* "g": there is no test of m.pullInProgress or m.syncInProgress
KeyPull ==
    /\ InMainView
    /\ CanStart
    /\ prevMode' = mode
    /\ pullInProgress' = TRUE
    /\ statusMsg' = "Pulling from GitHub..."
    /\ cmds' = Put(cmds, pullFromGitHubCmd)
    /\ UNCHANGED <<now, disk, repo, config, mode, listTasks,
                   configChanged, syncInProgress, remoteConfig, firstRunStep,
                   firstRunError>>
    /\ UNCHANGED ui

----------------------------------------------------------------------------
(* handleSyncConfirm                                                       *)

\* "y", "Y": there is no test of m.syncInProgress, and the view stays open
SyncConfirmYes ==
    /\ mode = syncConfirmView
    /\ CanStart
    /\ syncInProgress' = TRUE
    /\ statusMsg' = "Syncing to GitHub..."
    /\ cmds' = Put(cmds, syncToGitHubCmd)
    /\ UNCHANGED <<now, disk, repo, config, mode, prevMode,
                   listTasks, configChanged, pullInProgress, remoteConfig,
                   firstRunStep, firstRunError>>
    /\ UNCHANGED ui

\* "n", "N", "esc"
SyncConfirmNo ==
    /\ mode = syncConfirmView
    /\ mode' = prevMode
    /\ UNCHANGED <<now, disk, repo, config, prevMode,
                   listTasks, statusMsg, configChanged, syncInProgress,
                   pullInProgress, remoteConfig, firstRunStep, firstRunError,
                   cmds>>
    /\ UNCHANGED ui

----------------------------------------------------------------------------
(* The goroutine of syncToGitHubCmd                                        *)

Done(c, ok, err) ==
    [c EXCEPT !.pc = "done", !.success = ok, !.error = err,
              !.written = FALSE]

\* gh --version, gh repo view, gh repo create when the repository is
\* absent (created: it succeeds), gh repo clone (ok: it succeeds); when a
\* step fails the command ends with its error.
\* a faulty variant: a repository that is absent is not created
PushCloneNotCreating(c) ==
    /\ c.kind = "push" /\ c.pc = "clone"
    /\ \E created \in BOOLEAN, ok \in BOOLEAN :
        IF repo.kind = "absent" /\ ~created
        THEN /\ cmds' = Put(Take(cmds, c),
                            Done(c, FALSE, "Error creating repo"))
             /\ UNCHANGED repo
        ELSE /\ UNCHANGED repo
             /\ cmds' = Put(Take(cmds, c),
                    IF ok THEN [c EXCEPT !.pc = "copy"]
                    ELSE Done(c, FALSE, IF repo.kind = "absent"
                                        THEN "Error cloning new repo"
                                        ELSE "Error cloning repo"))
    /\ UNCHANGED <<now, disk, config, mode, prevMode,
                   listTasks, statusMsg, configChanged, syncInProgress,
                   pullInProgress, remoteConfig, firstRunStep, firstRunError>>
    /\ UNCHANGED ui

PushClone(c) ==
    /\ c.kind = "push" /\ c.pc = "clone"
    /\ \E created \in BOOLEAN, ok \in BOOLEAN :
        IF repo.kind = "absent" /\ ~created
        THEN /\ cmds' = Put(Take(cmds, c),
                            Done(c, FALSE, "Error creating repo"))
             /\ UNCHANGED repo
        ELSE /\ repo' = IF repo.kind = "absent" THEN RepoEmpty ELSE repo
             /\ cmds' = Put(Take(cmds, c),
                    IF ok THEN [c EXCEPT !.pc = "copy"]
                    ELSE Done(c, FALSE, IF repo.kind = "absent"
                                        THEN "Error cloning new repo"
                                        ELSE "Error cloning repo"))
    /\ UNCHANGED <<now, disk, config, mode, prevMode,
                   listTasks, statusMsg, configChanged, syncInProgress,
                   pullInProgress, remoteConfig, firstRunStep, firstRunError>>
    /\ UNCHANGED ui

\* os.ReadFile(configPath), written into the clone; git add, commit, push.
\* What is published is the file as it is now, not m.config.
PushPublish(c) ==
    /\ c.kind = "push" /\ c.pc = "copy"
    /\ \E ok \in BOOLEAN :
        IF ok
        THEN /\ repo' = RepoDoc(disk)
             /\ cmds' = Put(Take(cmds, c), Done(c, TRUE, ""))
        ELSE /\ cmds' = Put(Take(cmds, c),
                            Done(c, FALSE, "Error pushing to GitHub"))
             /\ UNCHANGED repo
    /\ UNCHANGED <<now, disk, config, mode, prevMode,
                   listTasks, statusMsg, configChanged, syncInProgress,
                   pullInProgress, remoteConfig, firstRunStep, firstRunError>>
    /\ UNCHANGED ui

----------------------------------------------------------------------------
(* Update: syncResultMsg                                                   *)

\* a faulty variant: a failed push clears m.configChanged too
SyncResultMsgClearingChanged(msg) ==
    /\ msg.kind = "push" /\ msg.pc = "done"
    /\ syncInProgress' = FALSE
    /\ cmds' = Take(cmds, msg)
    /\ IF mode = firstRunView
       THEN /\ IF msg.success
               THEN firstRunStep' = completeStep /\ firstRunError' = ""
               ELSE firstRunError' = msg.error /\ UNCHANGED firstRunStep
            /\ UNCHANGED <<statusMsg, configChanged, mode>>
       ELSE /\ statusMsg' = IF msg.success
                            THEN "Synced to GitHub successfully!"
                            ELSE "Sync failed: " \o msg.error
            /\ configChanged' = FALSE
            /\ mode' = prevMode
            /\ UNCHANGED <<firstRunStep, firstRunError>>
    /\ UNCHANGED <<now, disk, repo, config, prevMode,
                   listTasks, pullInProgress, remoteConfig>>
    /\ UNCHANGED ui

SyncResultMsg(msg) ==
    /\ msg.kind = "push" /\ msg.pc = "done"
    /\ syncInProgress' = FALSE
    /\ cmds' = Take(cmds, msg)
    /\ IF mode = firstRunView
       THEN /\ IF msg.success
               THEN firstRunStep' = completeStep /\ firstRunError' = ""
               ELSE firstRunError' = msg.error /\ UNCHANGED firstRunStep
            /\ UNCHANGED <<statusMsg, configChanged, mode>>
       ELSE /\ IF msg.success
               THEN /\ statusMsg' = "Synced to GitHub successfully!"
                    /\ configChanged' = FALSE
               ELSE /\ statusMsg' = "Sync failed: " \o msg.error
                    /\ UNCHANGED configChanged
            /\ mode' = prevMode
            /\ UNCHANGED <<firstRunStep, firstRunError>>
    /\ UNCHANGED <<now, disk, repo, config, prevMode,
                   listTasks, pullInProgress, remoteConfig>>
    /\ UNCHANGED ui

----------------------------------------------------------------------------
(* The goroutine of pullFromGitHubCmd                                      *)

PullFailed(c, err) ==
    [c EXCEPT !.pc = "done", !.success = FALSE, !.error = err,
              !.alias = FALSE, !.lu = 0]

\* localConfig.LastUpdate, as the goroutine of the pull c reads it
localConfigLastUpdate(c) == IF c.alias THEN config.LastUpdate ELSE c.lu

\* the pullResultMsg of a pull that fetched and parsed remoteCfg; local is
\* the LastUpdate read through the localConfig pointer
PullSucceeded(c, remoteCfg, local) ==
    [c EXCEPT !.pc = "done", !.success = TRUE, !.error = "",
              !.alias = FALSE, !.lu = 0,
              !.remoteConfig = remoteCfg,
              !.hasConflict = HasConflict(local, remoteCfg.LastUpdate)]

\* gh --version, gh repo view, gh repo clone (ok: the tools do their
\* work), os.ReadFile, json.Unmarshal and the comparison of the two
\* LastUpdate.  localConfig is the pointer
\* m.config held when the command was made: the comparison reads the
\* LastUpdate that Config has now (the goroutine reads it while Update may
\* write it, with no synchronisation).
\* a faulty variant: the goroutine writes what it fetched to ~/.todobi.conf
\* itself, as pullConfigFromGitHub does
PullRunWritingFile(c) ==
    /\ c.kind = "pull" /\ c.pc = "run"
    /\ \E ok \in BOOLEAN :
        /\ cmds' = Put(Take(cmds, c),
            IF repo.kind = "absent"
            THEN PullFailed(c,
                    "Remote repo 'todobi-sync' does not exist. Push to GitHub first with 'G'")
            ELSE IF ~ok
            THEN PullFailed(c, "Error cloning repo")
            ELSE IF repo.kind = "empty"
            THEN PullFailed(c, "Error reading remote config")
            ELSE IF repo.kind = "garbage"
            THEN PullFailed(c, "Error parsing remote config")
            ELSE PullSucceeded(c, repo.doc, localConfigLastUpdate(c)))
        /\ disk' = IF ok /\ repo.kind = "doc" THEN repo.doc ELSE disk
    /\ UNCHANGED <<now, repo, config, mode, prevMode,
                   listTasks, statusMsg, configChanged, syncInProgress,
                   pullInProgress, remoteConfig, firstRunStep, firstRunError>>
    /\ UNCHANGED ui

PullRun(c) ==
    /\ c.kind = "pull" /\ c.pc = "run"
    /\ \E ok \in BOOLEAN :
        cmds' = Put(Take(cmds, c),
            IF repo.kind = "absent"
            THEN PullFailed(c,
                    "Remote repo 'todobi-sync' does not exist. Push to GitHub first with 'G'")
            ELSE IF ~ok
            THEN PullFailed(c, "Error cloning repo")
            ELSE IF repo.kind = "empty"
            THEN PullFailed(c, "Error reading remote config")
            ELSE IF repo.kind = "garbage"
            THEN PullFailed(c, "Error parsing remote config")
            ELSE PullSucceeded(c, repo.doc, localConfigLastUpdate(c)))
    /\ UNCHANGED <<now, disk, repo, config, mode, prevMode,
                   listTasks, statusMsg, configChanged, syncInProgress,
                   pullInProgress, remoteConfig, firstRunStep, firstRunError>>
    /\ UNCHANGED ui

----------------------------------------------------------------------------
(* Update: pullResultMsg                                                   *)

PullResultMsg(msg) ==
    /\ msg.kind = "pull" /\ msg.pc = "done"
    /\ pullInProgress' = FALSE
    /\ LET rest == Take(cmds, msg)
       IN  IF mode = firstRunView
           THEN /\ IF msg.success
                   THEN /\ config' = msg.remoteConfig
                        /\ listTasks' = config'.Tasks
                        /\ firstRunStep' = completeStep
                        /\ firstRunError' = ""
                        /\ cmds' = Written(Detached(rest, config))
                   ELSE /\ firstRunError' = msg.error
                        /\ cmds' = rest
                        /\ UNCHANGED <<config, listTasks, firstRunStep>>
                /\ UNCHANGED <<remoteConfig, statusMsg, mode, configChanged>>
           ELSE /\ IF msg.success
                   THEN IF msg.hasConflict
                        THEN /\ remoteConfig' = msg.remoteConfig
                             /\ statusMsg' = "Conflict detected - choose merge strategy"
                             /\ mode' = pullConfirmView
                             /\ cmds' = rest
                             /\ UNCHANGED <<config, listTasks, configChanged>>
                        ELSE /\ config' = msg.remoteConfig
                             /\ listTasks' = config'.Tasks
                             /\ configChanged' = FALSE
                             /\ statusMsg' = "Pulled from GitHub successfully!"
                             /\ mode' = prevMode
                             /\ cmds' = Written(Detached(rest, config))
                             /\ UNCHANGED remoteConfig
                   ELSE /\ statusMsg' = "Pull failed: " \o msg.error
                        /\ mode' = prevMode
                        /\ cmds' = rest
                        /\ UNCHANGED <<config, listTasks, configChanged,
                                       remoteConfig>>
                /\ UNCHANGED <<firstRunStep, firstRunError>>
    /\ UNCHANGED <<now, disk, repo, prevMode, syncInProgress>>
    /\ UNCHANGED ui

----------------------------------------------------------------------------
(* handlePullConfirm                                                       *)

InPullConfirm == mode = pullConfirmView

\* a faulty variant of "l": it also sets m.configChanged
PullConfirmKeepLocalMarkingChanged ==
    /\ InPullConfirm
    /\ remoteConfig' = Nil
    /\ mode' = prevMode
    /\ statusMsg' = "Kept local version"
    /\ configChanged' = TRUE
    /\ UNCHANGED <<now, disk, repo, config, prevMode,
                   listTasks, syncInProgress, pullInProgress,
                   firstRunStep, firstRunError, cmds>>
    /\ UNCHANGED ui

\* "l", "L": keep local, discard remote
PullConfirmKeepLocal ==
    /\ InPullConfirm
    /\ remoteConfig' = Nil
    /\ mode' = prevMode
    /\ statusMsg' = "Kept local version"
    /\ UNCHANGED <<now, disk, repo, config, prevMode,
                   listTasks, configChanged, syncInProgress, pullInProgress,
                   firstRunStep, firstRunError, cmds>>
    /\ UNCHANGED ui

\* "r", "R": m.config = m.remoteConfig, saveConfigAndMarkChanged,
\* updateLists, m.configChanged = false
PullConfirmUseRemote ==
    /\ InPullConfirm
    /\ IF remoteConfig # Nil
       THEN /\ now < MaxTime
            /\ now' = now + 1
            /\ config' = saveConfig(remoteConfig, now')
            /\ disk' = config'
            /\ listTasks' = config'.Tasks
            /\ remoteConfig' = Nil
            /\ configChanged' = FALSE
            /\ statusMsg' = "Applied remote version"
            /\ cmds' = Written(Detached(cmds, config))
       ELSE UNCHANGED <<now, config, disk, listTasks, remoteConfig,
                        configChanged, statusMsg, cmds>>
    /\ mode' = prevMode
    /\ UNCHANGED <<repo, prevMode, syncInProgress,
                   pullInProgress, firstRunStep, firstRunError>>
    /\ UNCHANGED ui

\* "m", "M": m.config = mergeConfigs(m.config, m.remoteConfig),
\* saveConfigAndMarkChanged, updateLists, m.configChanged = false
PullConfirmMerge ==
    /\ InPullConfirm
    /\ IF remoteConfig # Nil
       THEN /\ now < MaxTime
            /\ now' = now + 1
            /\ \E merged \in mergeConfigs(config, remoteConfig, now') :
                    config' = saveConfig(merged, now')
            /\ disk' = config'
            /\ listTasks' = config'.Tasks
            /\ remoteConfig' = Nil
            /\ configChanged' = FALSE
            /\ statusMsg' = "Merged local and remote"
            /\ cmds' = Written(Detached(cmds, config))
       ELSE UNCHANGED <<now, config, disk, listTasks, remoteConfig,
                        configChanged, statusMsg, cmds>>
    /\ mode' = prevMode
    /\ UNCHANGED <<repo, prevMode, syncInProgress,
                   pullInProgress, firstRunStep, firstRunError>>
    /\ UNCHANGED ui

\* a faulty variant of "esc": the view is left, m.remoteConfig stays
PullConfirmCancelKeepingRemote ==
    /\ InPullConfirm
    /\ mode' = prevMode
    /\ UNCHANGED <<now, disk, repo, config, prevMode,
                   listTasks, statusMsg, configChanged, syncInProgress,
                   pullInProgress, remoteConfig, firstRunStep, firstRunError,
                   cmds>>
    /\ UNCHANGED ui

\* "esc"
PullConfirmCancel ==
    /\ InPullConfirm
    /\ remoteConfig' = Nil
    /\ mode' = prevMode
    /\ UNCHANGED <<now, disk, repo, config, prevMode,
                   listTasks, statusMsg, configChanged, syncInProgress,
                   pullInProgress, firstRunStep, firstRunError, cmds>>
    /\ UNCHANGED ui

----------------------------------------------------------------------------
(* handleFirstRun                                                          *)

InFirstRun == mode = firstRunView

\* welcomeStep: any key
FirstRunWelcome ==
    /\ InFirstRun /\ firstRunStep = welcomeStep
    /\ firstRunStep' = hasRepoPromptStep
    /\ UNCHANGED <<now, disk, repo, config, mode, prevMode,
                   listTasks, statusMsg, configChanged, syncInProgress,
                   pullInProgress, remoteConfig, firstRunError, cmds>>
    /\ UNCHANGED ui

\* hasRepoPromptStep, "y": pull the tasks from GitHub
FirstRunPull ==
    /\ InFirstRun /\ firstRunStep = hasRepoPromptStep
    /\ CanStart
    /\ firstRunStep' = pullingStep
    /\ pullInProgress' = TRUE
    /\ cmds' = Put(cmds, pullFromGitHubCmd)
    /\ UNCHANGED <<now, disk, repo, config, mode, prevMode,
                   listTasks, statusMsg, configChanged, syncInProgress,
                   remoteConfig, firstRunError>>
    /\ UNCHANGED ui

\* hasRepoPromptStep, "n"
FirstRunNoRepo ==
    /\ InFirstRun /\ firstRunStep = hasRepoPromptStep
    /\ firstRunStep' = createRepoPromptStep
    /\ UNCHANGED <<now, disk, repo, config, mode, prevMode,
                   listTasks, statusMsg, configChanged, syncInProgress,
                   pullInProgress, remoteConfig, firstRunError, cmds>>
    /\ UNCHANGED ui

\* createRepoPromptStep, "y": create the repository by pushing
FirstRunPush ==
    /\ InFirstRun /\ firstRunStep = createRepoPromptStep
    /\ CanStart
    /\ firstRunStep' = pushingStep
    /\ syncInProgress' = TRUE
    /\ cmds' = Put(cmds, syncToGitHubCmd)
    /\ UNCHANGED <<now, disk, repo, config, mode, prevMode,
                   listTasks, statusMsg, configChanged, pullInProgress,
                   remoteConfig, firstRunError>>
    /\ UNCHANGED ui

\* the setup is left: "esc" at hasRepoPromptStep, "n" or "esc" at
\* createRepoPromptStep, any key at pullingStep or pushingStep once there
\* is an error, any key at completeStep
FirstRunLeave ==
    /\ InFirstRun
    /\ \/ firstRunStep \in {hasRepoPromptStep, createRepoPromptStep}
       \/ firstRunStep \in {pullingStep, pushingStep} /\ firstRunError # ""
       \/ firstRunStep = completeStep
    /\ now < MaxTime
    /\ now' = now + 1
    /\ config' = saveConfig([config EXCEPT !.GitHubSetupComplete = TRUE], now')
    /\ disk' = config'
    /\ configChanged' = TRUE
    /\ mode' = listView
    /\ listTasks' = config'.Tasks
    /\ statusMsg' =
        IF firstRunStep \in {hasRepoPromptStep, createRepoPromptStep}
        THEN "GitHub sync skipped - you can sync later with 'G' or 'g'"
        ELSE IF firstRunStep = completeStep THEN statusMsg
        ELSE "Continuing with local tasks - sync later with 'G' or 'g'"
    /\ cmds' = Written(cmds)
    /\ UNCHANGED <<repo, prevMode, syncInProgress,
                   pullInProgress, remoteConfig, firstRunStep, firstRunError>>
    /\ UNCHANGED ui

----------------------------------------------------------------------------
(* A key the handler of the current view does nothing with, or a          *)
(* spinner.TickMsg                                                         *)

IgnoredMsg ==
    /\ mode \in {syncConfirmView, pullConfirmView, firstRunView}
    /\ UNCHANGED <<now, disk, repo, config, mode, prevMode,
                   listTasks, statusMsg, configChanged, syncInProgress,
                   pullInProgress, remoteConfig, firstRunStep, firstRunError,
                   cmds>>
    /\ UNCHANGED ui

----------------------------------------------------------------------------

Next ==
    \/ RemoteChange
    \/ KeyReload
    \/ toggleTask
    \/ KeyPush
    \/ KeyPull
    \/ SyncConfirmYes
    \/ SyncConfirmNo
    \/ \E c \in BagToSet(cmds) : PushClone(c)
    \/ \E c \in BagToSet(cmds) : PushPublish(c)
    \/ \E c \in BagToSet(cmds) : SyncResultMsg(c)
    \/ \E c \in BagToSet(cmds) : PullRun(c)
    \/ \E c \in BagToSet(cmds) : PullResultMsg(c)
    \/ PullConfirmKeepLocal
    \/ PullConfirmUseRemote
    \/ PullConfirmMerge
    \/ PullConfirmCancel
    \/ FirstRunWelcome
    \/ FirstRunPull
    \/ FirstRunNoRepo
    \/ FirstRunPush
    \/ FirstRunLeave
    \/ IgnoredMsg

Spec == Init /\ [][Next]_vars

----------------------------------------------------------------------------
(* Vocabulary of the properties                                            *)

\* a step in which handlePullConfirm serves one of "l", "r", "m", "esc"
ResolutionKey ==
    \/ PullConfirmKeepLocal
    \/ PullConfirmUseRemote
    \/ PullConfirmMerge
    \/ PullConfirmCancel

\* the goroutine of the pull c ends this step with the message d
PullCompletes(c, d) ==
    /\ c.kind = "pull" /\ c.pc = "run"
    /\ d.kind = "pull" /\ d.pc = "done"
    /\ cmds' = Put(Take(cmds, c), d)

\* Update processes, outside the first-run setup, the message of a pull
\* that succeeded
InteractivePullResult(msg) ==
    /\ PullResultMsg(msg)
    /\ msg.success
    /\ mode # firstRunView

\* the goroutine of the push c publishes in this step
PushPublishes(c) ==
    /\ c.kind = "push" /\ c.pc = "copy"
    /\ cmds' = Put(Take(cmds, c), Done(c, TRUE, ""))

\* Merge(local, remote), tasks: the union by ID; of two tasks with one ID
\* the one created later, the local one when neither is later
MergedTasks(local, remote) ==
    {t \in SetOf(local.Tasks) :
        ~ \E r \in SetOf(remote.Tasks) :
            r.ID = t.ID /\ r.CreatedAt > t.CreatedAt}
    \cup
    {r \in SetOf(remote.Tasks) :
        \A t \in SetOf(local.Tasks) :
            t.ID = r.ID => r.CreatedAt > t.CreatedAt}

\* Merge(local, remote), categories: the union by ID, the remote one of two
\* with one ID
MergedCategories(local, remote) ==
    SetOf(remote.Categories)
    \cup
    {c \in SetOf(local.Categories) :
        ~ \E r \in SetOf(remote.Categories) : r.ID = c.ID}

\* the Config cfg has exactly these categories and tasks, each once
HasExactly(cfg, cats, tasks) ==
    /\ SetOf(cfg.Categories) = cats
    /\ Len(cfg.Categories) = Cardinality(cats)
    /\ SetOf(cfg.Tasks) = tasks
    /\ Len(cfg.Tasks) = Cardinality(tasks)

----------------------------------------------------------------------------
(* Properties                                                              *)

\* C1: at most one sync operation is in flight: there are never two
\* commands (push or pull) whose completion message Update has not
\* processed.
C1_AtMostOneInFlight == InFlight <= 1

\* C2: a push that succeeds, with m.config and the file not assigned since
\* the push was started, leaves in the repository exactly the Config the
\* application holds.
C2_PushPublishesLocal ==
    [][\A c \in BagToSet(cmds) :
        (PushPublishes(c) /\ ~c.written) => repo' = RepoDoc(config)]_vars

C4_PullConflictDetection ==
    [][/\ \A c \in BagToSet(cmds) :
            /\ \A d \in BagToSet(cmds') :
                  (PullCompletes(c, d) /\ d.success
                     /\ localConfigLastUpdate(c) > d.remoteConfig.LastUpdate)
                  => d.hasConflict
            /\ (InteractivePullResult(c) /\ c.hasConflict)
                  => /\ remoteConfig' = c.remoteConfig
                     /\ mode' = pullConfirmView
                     /\ config' = config /\ disk' = disk
       /\ (remoteConfig # Nil /\ ~ResolutionKey)
            => (config' = config /\ disk' = disk)]_vars

\* C5: a resolution ("l", "r", "m", "esc") is applied only to a retained
\* remote Config, and it ends with m.remoteConfig nil and the view left:
\* no second resolution can apply to the same conflict.
C5_ResolutionExclusive ==
    [][ResolutionKey =>
        /\ mode = pullConfirmView
        /\ remoteConfig # Nil
        /\ remoteConfig' = Nil
        /\ mode' # pullConfirmView]_vars

\* a conflict has been resolved
C5_Witness ==
    /\ statusMsg \in {"Kept local version", "Applied remote version",
                       "Merged local and remote"}
    /\ remoteConfig = Nil
    /\ mode # pullConfirmView

\* C6: in pullConfirmView every step other than "l", "r", "m", "esc"
\* (another key, the message of a push or of another pull, a tick) stays
\* in the view and leaves m.config, the file and m.remoteConfig as they are.
C6_BlocksForHumanInput ==
    [][(mode = pullConfirmView /\ ~ResolutionKey)
        => /\ mode' = pullConfirmView
           /\ config' = config /\ disk' = disk
           /\ remoteConfig' = remoteConfig]_vars

\* C7: m.remoteConfig is non-nil only in pullConfirmView; it is set only by
\* the message of a pull that flagged a conflict; it is nil after each
\* resolution.
C7_RemoteConfigOnlyInView ==
    [][/\ remoteConfig' # Nil => mode' = pullConfirmView
       /\ (remoteConfig' # remoteConfig /\ remoteConfig' # Nil)
            => \E msg \in BagToSet(cmds) :
                  /\ InteractivePullResult(msg) /\ msg.hasConflict
                  /\ remoteConfig' = msg.remoteConfig
       /\ ResolutionKey => remoteConfig' = Nil]_vars

\* C8: after "r" on a pending conflict m.config and the file both equal
\* the retained remote Config in every field (Categories, Tasks, Version,
\* LastUpdate), and m.configChanged is false.
C8_TakeRemoteWholesale ==
    [][(PullConfirmUseRemote /\ remoteConfig # Nil)
        => /\ config' = remoteConfig
           /\ disk' = remoteConfig
           /\ ~configChanged']_vars

\* C9: after "m" on a pending conflict m.config and the file both have
\* exactly the categories and the tasks of Merge(m.config, m.remoteConfig),
\* and m.configChanged is false.
C9_MergeResolution ==
    [][(PullConfirmMerge /\ remoteConfig # Nil)
        => /\ HasExactly(config', MergedCategories(config, remoteConfig),
                                  MergedTasks(config, remoteConfig))
           /\ HasExactly(disk', MergedCategories(config, remoteConfig),
                                MergedTasks(config, remoteConfig))
           /\ ~configChanged']_vars

\* a conflict has been resolved by a merge that kept a task of each side
C9_Witness ==
    /\ statusMsg = "Merged local and remote"
    /\ {t.ID : t \in SetOf(config.Tasks)} = {"1", "2", "3"}
    /\ disk = config
    /\ ~configChanged

\* C10: "l" on a pending conflict sets m.remoteConfig to nil, leaves
\* m.config and the file as they are, and afterwards m.configChanged is
\* true.
C10_KeepLocal ==
    [][PullConfirmKeepLocal
        => /\ remoteConfig' = Nil
           /\ config' = config /\ disk' = disk
           /\ configChanged']_vars

\* C11: "esc" and "l" on a pending conflict have one and the same outcome,
\* a function of the state they are pressed in: m.config, the file and
\* m.configChanged as they were, the view m.prevMode, m.remoteConfig nil,
\* and nothing else changed; only m.statusMsg may differ.
C11_CancelAsKeepLocal ==
    [][(PullConfirmKeepLocal \/ PullConfirmCancel)
        => /\ config' = config /\ disk' = disk
           /\ configChanged' = configChanged
           /\ mode' = prevMode
           /\ remoteConfig' = Nil
           /\ UNCHANGED <<now, repo, prevMode, listTasks, syncInProgress,
                          pullInProgress, firstRunStep, firstRunError,
                          cmds>>]_vars

\* a conflict has been cancelled with "esc": the status of the flagging is
\* still shown, nothing is retained
C11_Witness ==
    /\ statusMsg = "Conflict detected - choose merge strategy"
    /\ remoteConfig = Nil
    /\ mode = listView

----------------------------------------------------------------------------
(* mergeConfigs on its own: a conflict is pending between a local and a    *)
(* remote Config drawn from the sets below, and "m" is pressed.  Each      *)
(* side has unique IDs.  Task "1" may be on both sides, created at the     *)
(* same time or not, with every other field different; task "2" is local   *)
(* only, task "3" remote only; category "work" is on both sides, "home"    *)
(* local only, "misc" remote only.  The remote side may also be the very   *)
(* Config of the local side.  The repository keeps the remote Config.      *)

MergeLocalTask(created) ==
    Task("1", "write report", "work", P1High, FALSE, created, 0)

MergeRemoteTask(created) ==
    [Task("1", "write the report", "misc", P0Critical, TRUE, created, 2)
        EXCEPT !.Notes = "sent on Monday"]

MergeLocals ==
    {Config(<<Category("work", "Work")>> \o cs, <<MergeLocalTask(c)>> \o ts,
            2, "1.3.0", TRUE) :
        c \in {1, 2},
        cs \in {<<>>, <<Category("home", "Home")>>},
        ts \in {<<>>, <<Task("2", "buy milk", "home", P2Medium, TRUE, 1, 2)>>}}

MergeRemotes ==
    {Config(<<Category("work", n)>> \o cs, t1 \o ts, 1, "1.2.0", TRUE) :
        n \in {"Work", "Office"},
        cs \in {<<>>, <<Category("misc", "Misc")>>},
        t1 \in {<<>>, <<MergeRemoteTask(1)>>, <<MergeRemoteTask(2)>>},
        ts \in {<<>>, <<Task("3", "call bank", "work", P3Low, FALSE, 2, 0)>>}}

InitMerge ==
    /\ now = 2
    /\ config \in MergeLocals
    /\ remoteConfig \in MergeRemotes \cup {config}
    /\ repo = RepoDoc(remoteConfig)
    /\ disk = config
    /\ mode = pullConfirmView
    /\ prevMode = listView
    /\ listTasks = config.Tasks
    /\ statusMsg = "Conflict detected - choose merge strategy"
    /\ configChanged = TRUE
    /\ syncInProgress = FALSE
    /\ pullInProgress = FALSE
    /\ firstRunStep = welcomeStep
    /\ firstRunError = ""
    /\ cmds = EmptyBag
    /\ ui = InitialUI

NextMerge == PullConfirmMerge

SpecMerge == InitMerge /\ [][NextMerge]_vars

\* the tasks of cfg with this ID
TasksWithID(cfg, id) == {t \in SetOf(cfg.Tasks) : t.ID = id}

\* the state follows a merge
Merged == statusMsg = "Merged local and remote"

\* C12: when a task ID is on both sides with different CreatedAt, the
\* merged Config has for that ID exactly the record created later, whole,
\* whichever side it is from.
C12_MergeLaterTaskWins ==
    [][PullConfirmMerge =>
        \A l \in SetOf(config.Tasks), r \in SetOf(remoteConfig.Tasks) :
            (l.ID = r.ID /\ l.CreatedAt # r.CreatedAt)
            => TasksWithID(config', l.ID)
                 = {IF l.CreatedAt < r.CreatedAt THEN r ELSE l}]_vars

\* after a merge the Config has a task that the remote side has too,
\* created earlier there
C12_Witness ==
    /\ Merged
    /\ \E t \in SetOf(config.Tasks), r \in SetOf(repo.doc.Tasks) :
            t.ID = r.ID /\ t.CreatedAt > r.CreatedAt

\* C13: when a task ID is on both sides with the same CreatedAt and the
\* records differ, the merged Config has the local record for that ID.
C13_MergeTieKeepsLocal ==
    [][PullConfirmMerge =>
        \A l \in SetOf(config.Tasks), r \in SetOf(remoteConfig.Tasks) :
            (l.ID = r.ID /\ l.CreatedAt = r.CreatedAt /\ l # r)
            => TasksWithID(config', l.ID) = {l}]_vars

\* after a merge the Config has a task that differs from the remote
\* side's task of the same ID and CreatedAt
C13_Witness ==
    /\ Merged
    /\ \E t \in SetOf(config.Tasks), r \in SetOf(repo.doc.Tasks) :
            t.ID = r.ID /\ t.CreatedAt = r.CreatedAt /\ t # r


\* the categories of cfg with this ID
CategoriesWithID(cfg, id) == {c \in SetOf(cfg.Categories) : c.ID = id}

\* C14: when a category ID is on both sides with different names, the
\* merged Config has for that ID the category with the remote name; a
\* category whose ID is on one side only is in the merged Config as it is.
C14_MergeCategories ==
    [][PullConfirmMerge =>
        /\ \A l \in SetOf(config.Categories),
              r \in SetOf(remoteConfig.Categories) :
                (l.ID = r.ID /\ l.Name # r.Name)
                => CategoriesWithID(config', l.ID) = {r}
        /\ \A l \in SetOf(config.Categories) :
                CategoriesWithID(remoteConfig, l.ID) = {}
                => CategoriesWithID(config', l.ID) = {l}
        /\ \A r \in SetOf(remoteConfig.Categories) :
                CategoriesWithID(config, r.ID) = {}
                => CategoriesWithID(config', r.ID) = {r}]_vars

\* after a merge the Config has "work" under the remote name "Office"
\* (the local name is "Work"), the local-only "home" and the remote-only
\* "misc"
C14_Witness ==
    /\ Merged
    /\ Category("work", "Office") \in SetOf(repo.doc.Categories)
    /\ CategoriesWithID(config, "work") = {Category("work", "Office")}
    /\ CategoriesWithID(repo.doc, "home") = {}
    /\ CategoriesWithID(config, "home") = {Category("home", "Home")}
    /\ CategoriesWithID(config, "misc") = {Category("misc", "Misc")}

\* C15: a task whose ID is on exactly one of the two sides is in the merged
\* Config with every field as it was.
C15_MergeUnionComplete ==
    [][PullConfirmMerge =>
        /\ \A l \in SetOf(config.Tasks) :
                TasksWithID(remoteConfig, l.ID) = {}
                => TasksWithID(config', l.ID) = {l}
        /\ \A r \in SetOf(remoteConfig.Tasks) :
                TasksWithID(config, r.ID) = {}
                => TasksWithID(config', r.ID) = {r}]_vars

\* after a merge the Config has task "2", which the remote side has not,
\* and task "3" of the remote side, which only the remote side had
C15_Witness ==
    /\ Merged
    /\ TasksWithID(repo.doc, "2") = {}
    /\ TasksWithID(config, "2") # {}
    /\ TasksWithID(config, "3") = TasksWithID(repo.doc, "3")
    /\ TasksWithID(config, "3") # {}

\* merging a Config with itself keeps the sets of categories and of tasks
\* and the Version
MergeIdempotentButSetup ==
    [][(PullConfirmMerge /\ remoteConfig = config)
        => /\ SetOf(config'.Categories) = SetOf(config.Categories)
           /\ SetOf(config'.Tasks) = SetOf(config.Tasks)
           /\ config'.Version = config.Version]_vars

\* C16: merging a Config with itself gives a Config with the same set of
\* categories, the same set of tasks, the same Version and the same
\* GitHubSetupComplete, the persisted fields other than LastUpdate.
C16_MergeIdempotent ==
    [][(PullConfirmMerge /\ remoteConfig = config)
        => /\ SetOf(config'.Categories) = SetOf(config.Categories)
           /\ SetOf(config'.Tasks) = SetOf(config.Tasks)
           /\ config'.Version = config.Version
           /\ config'.GitHubSetupComplete = config.GitHubSetupComplete]_vars

\* a Config was merged with itself: the categories, tasks and Version of
\* the result are those of the remote side still in the repository
C16_Witness ==
    /\ Merged
    /\ SetOf(config.Categories) = SetOf(repo.doc.Categories)
    /\ SetOf(config.Tasks) = SetOf(repo.doc.Tasks)
    /\ config.Version = repo.doc.Version

\* C17: the merged Config has the Version of the local side, and its
\* LastUpdate is the time of the merge, later than the LastUpdate of
\* either side.
C17_MergeMetadata ==
    [][PullConfirmMerge
        => /\ config'.Version = config.Version
           /\ config'.LastUpdate = now'
           /\ config'.LastUpdate > config.LastUpdate
           /\ config'.LastUpdate > remoteConfig.LastUpdate]_vars

\* after a merge of two sides with different Versions the Config has the
\* local Version and the time of the merge
C17_Witness ==
    /\ Merged
    /\ repo.doc.Version = "1.2.0"
    /\ config.Version = "1.3.0"
    /\ config.LastUpdate = now
    /\ repo.doc.LastUpdate < now


\* a syncResultMsg or pullResultMsg with success false is handled
FailedResultMsg(msg) ==
    /\ ~msg.success
    /\ SyncResultMsg(msg) \/ PullResultMsg(msg)

\* C18: handling the result message of a failed push or pull leaves
\* m.config, the file, m.configChanged and m.remoteConfig as they were.
C18_FailureLeavesData ==
    [][\A msg \in BagToSet(cmds) :
        FailedResultMsg(msg)
        => UNCHANGED <<config, disk, configChanged, remoteConfig>>]_vars

\* a push has failed and m.configChanged is still true
C18_Witness ==
    /\ statusMsg = "Sync failed: Error pushing to GitHub"
    /\ configChanged
    /\ ~syncInProgress

----------------------------------------------------------------------------
(* The views while a push or a pull runs: a set-up installation, the list  *)
(* and the completed list ("v"), "G" and "g", the goroutines and their     *)
(* result messages, the keys of the two confirmation views.                *)

InitViews ==
    /\ now = 2
    /\ repo \in InitialRepos
    /\ disk = SavedConfig
    /\ config = disk
    /\ mode = listView
    /\ prevMode = listView
    /\ listTasks = config.Tasks
    /\ statusMsg = ""
    /\ configChanged \in BOOLEAN
    /\ syncInProgress = FALSE
    /\ pullInProgress = FALSE
    /\ remoteConfig = Nil
    /\ firstRunStep = welcomeStep
    /\ firstRunError = ""
    /\ cmds = EmptyBag
    /\ ui = InitialUI

NextViews ==
    \/ KeyCompleted
    \/ KeyPush
    \/ KeyPull
    \/ SyncConfirmYes
    \/ SyncConfirmNo
    \/ \E c \in BagToSet(cmds) : PushClone(c)
    \/ \E c \in BagToSet(cmds) : PushPublish(c)
    \/ \E c \in BagToSet(cmds) : SyncResultMsg(c)
    \/ \E c \in BagToSet(cmds) : PullRun(c)
    \/ \E c \in BagToSet(cmds) : PullResultMsg(c)
    \/ PullConfirmKeepLocal
    \/ PullConfirmUseRemote
    \/ PullConfirmMerge
    \/ PullConfirmCancel

SpecViews == InitViews /\ [][NextViews]_vars

\* C19: handling the result message of a failed push or pull while the
\* list or the completed list is shown leaves that view shown.
C19_FailureLeavesView ==
    [][\A msg \in BagToSet(cmds) :
        (FailedResultMsg(msg) /\ InMainView) => mode' = mode]_vars

\* what the code does: the view becomes m.prevMode, whatever is shown
FailureRestoresPrevMode ==
    [][\A msg \in BagToSet(cmds) :
        (FailedResultMsg(msg) /\ mode # firstRunView)
        => mode' = prevMode]_vars

----------------------------------------------------------------------------
(* The three ways to pull: "todobi --pull", the pull of the first-run      *)
(* setup and "g".  The program is not running at first; a run with --pull  *)
(* ends at once, a run without arguments starts the interface.  statusMsg  *)
(* holds the last line a --pull run printed.                               *)

\* no process of the program runs
notRunning == "notRunning"

\* ~/.todobi.conf holds bytes that are not JSON
FileGarbage == [garbage |-> TRUE]

\* the file of a session that did not finish the setup
UnsetConfig == saveConfig(defaultConfig(2), 2)

InitPull ==
    /\ now = 2
    /\ repo \in InitialRepos \cup {RepoEmpty}
    /\ disk \in {SavedConfig, UnsetConfig}
    /\ config = Nil
    /\ mode = notRunning
    /\ prevMode = listView
    /\ listTasks = <<>>
    /\ statusMsg = ""
    /\ configChanged = FALSE
    /\ syncInProgress = FALSE
    /\ pullInProgress = FALSE
    /\ remoteConfig = Nil
    /\ firstRunStep = welcomeStep
    /\ firstRunError = ""
    /\ cmds = EmptyBag
    /\ ui = InitialUI

\* a faulty variant: a file newer than the remote Config is kept
pullConfigFromGitHubUnlessNewer ==
    /\ mode = notRunning
    /\ \E ok \in BOOLEAN :
        IF repo.kind = "absent"
        THEN /\ statusMsg' = "Error pulling config: remote repo 'todobi-sync' does not exist"
             /\ UNCHANGED disk
        ELSE IF ~ok
        THEN /\ statusMsg' = "Error pulling config: error cloning repo"
             /\ UNCHANGED disk
        ELSE IF repo.kind = "empty"
        THEN /\ statusMsg' = "Error pulling config: error reading remote config"
             /\ UNCHANGED disk
        ELSE /\ disk' = IF repo.kind = "garbage" THEN FileGarbage
                        ELSE IF disk # FileGarbage
                                /\ HasConflict(disk.LastUpdate,
                                               repo.doc.LastUpdate)
                        THEN disk
                        ELSE repo.doc
             /\ statusMsg' = "Config pulled successfully!"
    /\ UNCHANGED <<now, repo, config, mode, prevMode, listTasks,
                   configChanged, syncInProgress, pullInProgress,
                   remoteConfig, firstRunStep, firstRunError, cmds>>
    /\ UNCHANGED ui

\* main with --pull: pullConfigFromGitHub, the line printed, os.Exit.
\* The bytes read from the clone are written to ~/.todobi.conf as they
\* are.  ok: gh and the clone do their work.
pullConfigFromGitHub ==
    /\ mode = notRunning
    /\ \E ok \in BOOLEAN :
        IF repo.kind = "absent"
        THEN /\ statusMsg' = "Error pulling config: remote repo 'todobi-sync' does not exist"
             /\ UNCHANGED disk
        ELSE IF ~ok
        THEN /\ statusMsg' = "Error pulling config: error cloning repo"
             /\ UNCHANGED disk
        ELSE IF repo.kind = "empty"
        THEN /\ statusMsg' = "Error pulling config: error reading remote config"
             /\ UNCHANGED disk
        ELSE /\ disk' = IF repo.kind = "garbage" THEN FileGarbage
                                                ELSE repo.doc
             /\ statusMsg' = "Config pulled successfully!"
    /\ UNCHANGED <<now, repo, config, mode, prevMode, listTasks,
                   configChanged, syncInProgress, pullInProgress,
                   remoteConfig, firstRunStep, firstRunError, cmds>>
    /\ UNCHANGED ui

\* main without arguments: loadConfig, defaultConfig and saveConfig when
\* the file cannot be loaded, the model, tea.NewProgram
main ==
    /\ mode = notRunning
    /\ IF disk = FileGarbage
       THEN /\ now < MaxTime
            /\ now' = now + 1
            /\ config' = saveConfig(defaultConfig(now'), now')
            /\ disk' = config'
       ELSE /\ config' = disk
            /\ UNCHANGED <<now, disk>>
    /\ mode' = IF ~config'.GitHubSetupComplete THEN firstRunView
                                                ELSE listView
    /\ listTasks' = config'.Tasks
    /\ statusMsg' = ""
    /\ UNCHANGED <<repo, prevMode, configChanged, syncInProgress,
                   pullInProgress, remoteConfig, firstRunStep,
                   firstRunError, cmds>>
    /\ UNCHANGED ui

NextPull ==
    \/ pullConfigFromGitHub
    \/ main
    \/ RemoteChange
    \/ KeyPull
    \/ \E c \in BagToSet(cmds) : PullRun(c)
    \/ \E c \in BagToSet(cmds) : PullResultMsg(c)
    \/ PullConfirmKeepLocal
    \/ PullConfirmUseRemote
    \/ PullConfirmMerge
    \/ PullConfirmCancel
    \/ FirstRunWelcome
    \/ FirstRunPull
    \/ FirstRunLeave

SpecPull == InitPull /\ [][NextPull]_vars

\* the goroutine of a pull finds content that is not JSON in the repository
PullRunOnGarbage(c) == PullRun(c) /\ repo.kind = "garbage"

\* the pull of "g" and of the first-run setup: content that is not JSON
\* makes a pullResultMsg with success false, and handling such a message
\* shows the error and leaves the file and m.config as they are
InteractivePullRejectsGarbage ==
    [][\A c \in BagToSet(cmds) :
        /\ PullRunOnGarbage(c)
           => /\ \E msg \in BagToSet(cmds') :
                    /\ msg.pc = "done" /\ ~msg.success
                    /\ cmds' = Put(Take(cmds, c), msg)
              /\ disk' = disk
        /\ (PullResultMsg(c) /\ ~c.success)
           => /\ disk' = disk /\ config' = config
              /\ IF mode = firstRunView
                 THEN firstRunError' = c.error /\ firstRunError' # ""
                 ELSE statusMsg' = "Pull failed: " \o c.error]_vars

\* C20: on each way to pull, content of the repository that is not JSON
\* makes the pull fail and leaves ~/.todobi.conf as it is: the goroutine of
\* "g" and of the first-run pull returns a failure, and a --pull run prints
\* an error, not "Config pulled successfully!".
C20_GarbageIsFailure ==
    [][/\ \A c \in BagToSet(cmds) :
            PullRunOnGarbage(c)
            => /\ \E msg \in BagToSet(cmds') :
                     /\ msg.pc = "done" /\ ~msg.success
                     /\ cmds' = Put(Take(cmds, c), msg)
               /\ disk' = disk
       /\ (pullConfigFromGitHub /\ repo.kind = "garbage")
            => /\ statusMsg' # "Config pulled successfully!"
               /\ disk' = disk]_vars

----------------------------------------------------------------------------
\* the goroutine c ends in this step with a result message of failure
EndsInFailure(c) ==
    \E msg \in BagToSet(cmds') :
        /\ msg.kind = c.kind /\ msg.pc = "done" /\ ~msg.success
        /\ cmds' = Put(Take(cmds, c), msg)

NoRepoError ==
    "Remote repo 'todobi-sync' does not exist. Push to GitHub first with 'G'"

\* C21: the goroutine of a pull that finds no repository ends in failure
\* and leaves the repository absent and m.config and the file as they are;
\* the goroutine of a push that finds no repository creates it and goes on
\* to publish into it, or fails to create it and ends in failure with the
\* repository still absent.
C21_RemoteAbsent ==
    [][\A c \in BagToSet(cmds) :
        /\ (PullRun(c) /\ repo.kind = "absent")
           => /\ EndsInFailure(c)
              /\ UNCHANGED <<repo, config, disk>>
        /\ (PushClone(c) /\ repo.kind = "absent")
           => \/ /\ repo' = RepoEmpty
                 /\ \/ cmds' = Put(Take(cmds, c), [c EXCEPT !.pc = "copy"])
                    \/ EndsInFailure(c)
              \/ /\ cmds' = Put(Take(cmds, c),
                                 Done(c, FALSE, "Error creating repo"))
                 /\ UNCHANGED repo
        /\ (PushPublish(c) /\ repo.kind = "empty")
           => \/ repo' = RepoDoc(disk)
              \/ EndsInFailure(c) /\ UNCHANGED repo]_vars

\* a pull has failed for want of a repository, and a push has since
\* created the repository and is about to publish into it
C21_Witness ==
    /\ statusMsg = "Pull failed: " \o NoRepoError
    /\ repo = RepoEmpty
    /\ \E c \in BagToSet(cmds) : c.kind = "push" /\ c.pc = "copy"

----------------------------------------------------------------------------
(* Quitting while commands run: the views of SpecViews and "q".            *)

\* "q", "ctrl+c" in the list or the completed list: saveConfig(m.config)
\* and tea.Quit.  The process ends, and with it its goroutines and the
\* messages not yet handled; the model's fields are no more.
KeyQuit ==
    /\ InMainView
    /\ now < MaxTime
    /\ now' = now + 1
    /\ disk' = saveConfig(config, now')
    /\ config' = Nil
    /\ mode' = notRunning
    /\ prevMode' = listView
    /\ listTasks' = <<>>
    /\ statusMsg' = ""
    /\ configChanged' = FALSE
    /\ syncInProgress' = FALSE
    /\ pullInProgress' = FALSE
    /\ remoteConfig' = Nil
    /\ cmds' = EmptyBag
    /\ UNCHANGED <<repo, firstRunStep, firstRunError>>
    /\ ui' = InitialUI

NextSync ==
    \/ NextViews
    \/ KeyQuit

SpecSync == InitViews /\ [][NextSync]_vars

\* the goroutines of the bag B that run
Running(B) == Copies(B, {c \in BagToSet(B) : c.pc # "done"})

\* the result messages of the bag B, returned and not handled yet
Messages(B) == Copies(B, {c \in BagToSet(B) : c.pc = "done"})

\* C22: a result message comes to be only as the end of one running
\* goroutine; a running goroutine ends only by returning its one result
\* message; a result message goes only by being handled by Update, one at
\* a time.  So each command started gives one message, after its work.
C22_OneResultAfterWork ==
    [][/\ Messages(cmds') > Messages(cmds)
            => /\ Messages(cmds') = Messages(cmds) + 1
               /\ Running(cmds') = Running(cmds) - 1
       /\ Running(cmds') < Running(cmds)
            => /\ Messages(cmds') = Messages(cmds) + 1
               /\ Running(cmds') = Running(cmds) - 1
       /\ Running(cmds') > Running(cmds)
            => /\ Running(cmds') = Running(cmds) + 1
               /\ Messages(cmds') = Messages(cmds)
               /\ syncInProgress' \/ pullInProgress'
       /\ Messages(cmds') < Messages(cmds)
            => /\ Messages(cmds') = Messages(cmds) - 1
               /\ Running(cmds') = Running(cmds)
               /\ \E msg \in BagToSet(cmds) :
                     SyncResultMsg(msg) \/ PullResultMsg(msg)]_vars


\* Update handles a key
KeyMsg ==
    \/ KeyCompleted \/ KeyPush \/ KeyPull \/ KeyQuit
    \/ SyncConfirmYes \/ SyncConfirmNo
    \/ PullConfirmKeepLocal \/ PullConfirmUseRemote
    \/ PullConfirmMerge \/ PullConfirmCancel

\* a goroutine takes a step
GoroutineStep ==
    \E c \in BagToSet(cmds) : PushClone(c) \/ PushPublish(c) \/ PullRun(c)

\* the views without "q": goroutines run on, messages are handled
FairSpecViews ==
    /\ SpecViews
    /\ WF_vars(\E c \in BagToSet(cmds) : PushClone(c))
    /\ WF_vars(\E c \in BagToSet(cmds) : PushPublish(c))
    /\ WF_vars(\E c \in BagToSet(cmds) : PullRun(c))
    /\ WF_vars(\E msg \in BagToSet(cmds) : SyncResultMsg(msg))
    /\ WF_vars(\E msg \in BagToSet(cmds) : PullResultMsg(msg))

\* without "q" the flag of a command that was started becomes false
FlagsBecomeFalse ==
    /\ syncInProgress ~> ~syncInProgress
    /\ pullInProgress ~> ~pullInProgress

\* C23: no key handled while a push or a pull is under way cancels it or
\* takes its result message away: after the key every goroutine still
\* runs and every message returned is still to be handled.
C23_NoKeyCancels ==
    [][KeyMsg => /\ Running(cmds') >= Running(cmds)
                 /\ Messages(cmds') = Messages(cmds)]_vars


\* C24: no step of the goroutine of a push or a pull writes m.config, the
\* file, m.configChanged or m.remoteConfig; what it fetched is in its
\* result message only.
C24_SingleWriter ==
    [][GoroutineStep
        => UNCHANGED <<config, disk, configChanged, remoteConfig>>]_vars

\* a pull has fetched a Config that is not the local one; its message is
\* not handled yet and m.config and the file are what they were
C24_Witness ==
    /\ \E msg \in BagToSet(cmds) :
          /\ msg.kind = "pull" /\ msg.pc = "done" /\ msg.success
          /\ msg.remoteConfig # config
    /\ disk = config
    /\ remoteConfig = Nil


\* the file has the categories, tasks and version of cfg
Persisted(cfg) ==
    /\ disk.Categories = cfg.Categories
    /\ disk.Tasks = cfg.Tasks
    /\ disk.Version = cfg.Version

\* C25: after every step that changes m.config the file has the
\* categories, the tasks and the version of m.config.
C25_NoMemoryOnlyState ==
    [][config' # config => Persisted(config)']_vars

\* what the code does on a pull without conflict and on a first-run pull:
\* the Config of the message is adopted and the file is left as it was
PullAdoptsWithoutSaving ==
    [][\A msg \in BagToSet(cmds) :
        (PullResultMsg(msg) /\ msg.success
            /\ (mode = firstRunView \/ ~msg.hasConflict))
        => config' = msg.remoteConfig /\ disk' = disk]_vars


\* the bytes of .todobi.conf in the repository, as a file
RepoFile == IF repo.kind = "garbage" THEN FileGarbage ELSE repo.doc

\* C26: a --pull run that prints success has made the file equal to the
\* file of the repository, whatever the file was and whatever the two
\* LastUpdate; a --pull run that prints an error has left the file as it
\* was; no run flags a conflict.
C26_PullFlagAdopts ==
    [][pullConfigFromGitHub
        => /\ IF statusMsg' = "Config pulled successfully!"
              THEN repo.kind \in {"doc", "garbage"} /\ disk' = RepoFile
              ELSE disk' = disk
           /\ remoteConfig' = Nil
           /\ mode' = notRunning]_vars

\* a --pull run has replaced the file, saved at 2, by the Config of the
\* repository, saved at 1
C26_Witness ==
    /\ mode = notRunning
    /\ statusMsg = "Config pulled successfully!"
    /\ disk = OtherMachineConfig(1)
    /\ repo = RepoDoc(disk)


\* m.config has the categories and the tasks of the Config in the
\* repository.  Under SpecViews, where no key edits a task or a category
\* and no other machine pushes, this is so only from a sync point on: a
\* pull adopted, the remote Config taken with "r", or a push.
InSyncWithRepo ==
    /\ repo.kind = "doc"
    /\ config.Categories = repo.doc.Categories
    /\ config.Tasks = repo.doc.Tasks

\* the result message the goroutine c returns in this step
Returns(c, msg) ==
    /\ msg.pc = "done"
    /\ cmds' = Put(Take(cmds, c), msg)

\* C27: a pull started when m.config has the content of the repository,
\* with no edit since the last sync point, flags no conflict.
C27_ConflictOnlyAfterEdit ==
    [][\A c \in BagToSet(cmds) :
        (PullRun(c) /\ c.alias /\ InSyncWithRepo)
        => \A msg \in BagToSet(cmds') :
              Returns(c, msg) => ~msg.hasConflict]_vars


\* C28: once the file has GitHubSetupComplete true, it has it true after
\* every step.
C28_SetupCompleteStays ==
    [][disk.GitHubSetupComplete => disk'.GitHubSetupComplete]_vars


----------------------------------------------------------------------------
(* Creating, editing, annotating and deleting tasks                        *)

\* what the user may have typed into m.taskInputs[0] or m.notesTextarea
\* (both are empty when a new task's form or a task without notes opens)
TypedTexts == {" call mum "}

\* what the user may have typed into m.taskInputs[1]
TypedPriorities == {"", "0"}

\* strings.TrimSpace on the texts above and on what the forms are filled with
TrimSpace(s) ==
    CASE s = " " -> ""
      [] s = " call mum " -> "call mum"
      [] s = " mum " -> "mum"
      [] s = " Home " -> "Home"
      [] s = " by phone " -> "by phone"
      [] s = " tel:1 " -> "tel:1"
      [] OTHER -> s

\* the switch on p[0] in handleTaskForm and handleTaskEdit
ParsedPriority(p) ==
    CASE p = "0" -> P0Critical
      [] p = "2" -> P2Medium
      [] p = "3" -> P3Low
      [] OTHER -> P1High

\* fmt.Sprintf("%d", selectedTask.Priority)
PriorityDigits(p) ==
    CASE p = P0Critical -> "0"
      [] p = P1High -> "1"
      [] p = P2Medium -> "2"
      [] OTHER -> "3"

\* generateID(): fmt.Sprintf("%d", time.Now().UnixNano())
generateID(t) ==
    CASE t = 0 -> "1700000000000000000"
      [] t = 1 -> "1700000000000000001"
      [] t = 2 -> "1700000000000000002"
      [] t = 3 -> "1700000000000000003"
      [] t = 4 -> "1700000000000000004"
      [] OTHER -> "1700000000000000005"

\* len(m.taskInputs)+len(m.config.Categories)
FormFields == 2 + Len(config.Categories)

\* "T"
KeyNewTask ==
    /\ InMainView
    /\ prevMode' = mode
    /\ mode' = taskFormView
    /\ ui' = [ui EXCEPT !.formFocus = 0, !.taskInputs = <<"", "1">>]
    /\ UNCHANGED <<now, disk, repo, config, listTasks, statusMsg,
                   configChanged, syncInProgress, pullInProgress,
                   remoteConfig, firstRunStep, firstRunError, cmds>>

\* handleTaskForm and handleTaskEdit, "up" and "down"
FormUpDown(view) ==
    /\ mode = view
    /\ \E down \in BOOLEAN :
        LET f == IF down THEN ui.formFocus + 1 ELSE ui.formFocus - 1
        IN  ui' = [ui EXCEPT !.formFocus =
                        IF f < 0 THEN FormFields - 1
                        ELSE IF f >= FormFields THEN 0 ELSE f]
    /\ UNCHANGED <<now, disk, repo, config, mode, prevMode, listTasks,
                   statusMsg, configChanged, syncInProgress, pullInProgress,
                   remoteConfig, firstRunStep, firstRunError, cmds>>

\* handleTaskForm and handleTaskEdit, any other key: the focused input
\* takes it
FormType(view) ==
    /\ mode = view
    /\ ui.formFocus < 2
    /\ \E v \in IF ui.formFocus = 0 THEN TypedTexts ELSE TypedPriorities :
        /\ ui.taskInputs[ui.formFocus + 1] # v
        /\ ui' = [ui EXCEPT !.taskInputs[ui.formFocus + 1] = v]
    /\ UNCHANGED <<now, disk, repo, config, mode, prevMode, listTasks,
                   statusMsg, configChanged, syncInProgress, pullInProgress,
                   remoteConfig, firstRunStep, firstRunError, cmds>>

\* handleTaskForm and handleTaskEdit, "enter" on an input: the next field
FormNextField(view) ==
    /\ mode = view
    /\ ui.formFocus < 2
    /\ ui' = [ui EXCEPT !.formFocus =
                IF @ + 1 >= FormFields THEN FormFields - 1 ELSE @ + 1]
    /\ UNCHANGED <<now, disk, repo, config, mode, prevMode, listTasks,
                   statusMsg, configChanged, syncInProgress, pullInProgress,
                   remoteConfig, firstRunStep, firstRunError, cmds>>

\* handleTaskForm, "esc"
TaskFormEsc ==
    /\ mode = taskFormView
    /\ mode' = prevMode
    /\ UNCHANGED <<now, disk, repo, config, prevMode, listTasks, statusMsg,
                   configChanged, syncInProgress, pullInProgress,
                   remoteConfig, ui, firstRunStep, firstRunError, cmds>>

\* handleTaskForm, "enter" on a category: the task is created unless the
\* content is blank
TaskFormSubmit ==
    /\ mode = taskFormView
    /\ LET catIndex == ui.formFocus - 2
           content == TrimSpace(ui.taskInputs[1])
       IN  /\ catIndex >= 0 /\ catIndex < Len(config.Categories)
           /\ IF content # ""
              THEN /\ now < MaxTime
                   /\ now' = now + 1
                   /\ config' = saveConfig(
                        [config EXCEPT !.Tasks = Append(@,
                            Task(generateID(now'), content,
                                 config.Categories[catIndex + 1].ID,
                                 ParsedPriority(ui.taskInputs[2]),
                                 FALSE, now', 0))], now')
                   /\ disk' = config'
                   /\ configChanged' = TRUE
                   /\ listTasks' = config'.Tasks
                   /\ statusMsg' = "Task created"
                   /\ cmds' = Written(cmds)
              ELSE UNCHANGED <<now, config, disk, configChanged, listTasks,
                               statusMsg, cmds>>
    /\ mode' = prevMode
    /\ UNCHANGED <<repo, prevMode, syncInProgress, pullInProgress,
                   remoteConfig, ui, firstRunStep, firstRunError>>


\* "e": startEditTask on the selected item
startEditTask ==
    /\ InMainView
    /\ \E sel \in ListItems(mode = completedView) :
        ui' = [ui EXCEPT !.editingTask = sel, !.formFocus = 0,
                         !.taskInputs = <<sel.Content,
                                          PriorityDigits(sel.Priority)>>]
    /\ prevMode' = mode
    /\ mode' = editTaskView
    /\ UNCHANGED <<now, disk, repo, config, listTasks, statusMsg,
                   configChanged, syncInProgress, pullInProgress,
                   remoteConfig, firstRunStep, firstRunError, cmds>>

\* handleTaskEdit, "esc"
TaskEditEsc ==
    /\ mode = editTaskView
    /\ mode' = prevMode
    /\ ui' = [ui EXCEPT !.editingTask = Nil]
    /\ UNCHANGED <<now, disk, repo, config, prevMode, listTasks, statusMsg,
                   configChanged, syncInProgress, pullInProgress,
                   remoteConfig, firstRunStep, firstRunError, cmds>>

\* a faulty variant: the task edited is reopened
EditedTasksReopening(tasks, id, content, priority, cat) ==
    LET i == IndexOfID(tasks, id)
    IN  IF i = 0 THEN tasks
        ELSE [tasks EXCEPT ![i] =
                [@ EXCEPT !.Content = content, !.Priority = priority,
                          !.CategoryID = cat, !.Done = FALSE,
                          !.CompletedAt = 0]]

\* the loop of handleTaskEdit over m.config.Tasks
EditedTasks(tasks, id, content, priority, cat) ==
    LET i == IndexOfID(tasks, id)
    IN  IF i = 0 THEN tasks
        ELSE [tasks EXCEPT ![i] =
                [@ EXCEPT !.Content = content, !.Priority = priority,
                          !.CategoryID = cat]]

\* handleTaskEdit, "enter" on a category: the task with the ID of
\* m.editingTask is updated unless the content is blank
TaskEditSubmit ==
    /\ mode = editTaskView
    /\ LET catIndex == ui.formFocus - 2
           content == TrimSpace(ui.taskInputs[1])
       IN  /\ catIndex >= 0 /\ catIndex < Len(config.Categories)
           /\ IF content # "" /\ ui.editingTask # Nil
              THEN /\ now < MaxTime
                   /\ now' = now + 1
                   /\ config' = saveConfig(
                        [config EXCEPT !.Tasks =
                            EditedTasks(@, ui.editingTask.ID, content,
                                        ParsedPriority(ui.taskInputs[2]),
                                        config.Categories[catIndex + 1].ID)],
                        now')
                   /\ disk' = config'
                   /\ configChanged' = TRUE
                   /\ listTasks' = config'.Tasks
                   /\ statusMsg' = "Task updated"
                   /\ cmds' = Written(cmds)
              ELSE UNCHANGED <<now, config, disk, configChanged, listTasks,
                               statusMsg, cmds>>
    /\ mode' = prevMode
    /\ ui' = [ui EXCEPT !.editingTask = Nil]
    /\ UNCHANGED <<repo, prevMode, syncInProgress, pullInProgress,
                   remoteConfig, firstRunStep, firstRunError>>

\* "enter", "i": viewTaskDetail on the selected item
viewTaskDetail ==
    /\ InMainView
    /\ \E sel \in ListItems(mode = completedView) :
        ui' = [ui EXCEPT !.editingTask = sel, !.notesTextarea = sel.Notes]
    /\ prevMode' = mode
    /\ mode' = taskDetailView
    /\ UNCHANGED <<now, disk, repo, config, listTasks, statusMsg,
                   configChanged, syncInProgress, pullInProgress,
                   remoteConfig, firstRunStep, firstRunError, cmds>>

\* handleTaskDetail, any other key: m.notesTextarea takes it
TaskDetailType ==
    /\ mode = taskDetailView
    /\ \E v \in TypedTexts :
        /\ ui.notesTextarea # v
        /\ ui' = [ui EXCEPT !.notesTextarea = v]
    /\ UNCHANGED <<now, disk, repo, config, mode, prevMode, listTasks,
                   statusMsg, configChanged, syncInProgress, pullInProgress,
                   remoteConfig, firstRunStep, firstRunError, cmds>>

\* the assignment to m.config.Tasks[i].Notes
NotedTasks(tasks, i, notes) == [tasks EXCEPT ![i].Notes = notes]

\* a faulty variant: saveConfig instead of saveConfigAndMarkChanged
TaskDetailSaveUnmarked(leave) ==
    /\ mode = taskDetailView
    /\ LET i == IF ui.editingTask = Nil THEN 0
                ELSE IndexOfID(config.Tasks, ui.editingTask.ID)
           notes == TrimSpace(ui.notesTextarea)
       IN  IF i # 0 /\ (~leave \/ config.Tasks[i].Notes # notes)
           THEN /\ now < MaxTime
                /\ now' = now + 1
                /\ config' = saveConfig(
                     [config EXCEPT !.Tasks = NotedTasks(@, i, notes)], now')
                /\ disk' = config'
                /\ statusMsg' = "Notes saved"
                /\ cmds' = Written(cmds)
                /\ UNCHANGED configChanged
           ELSE UNCHANGED <<now, config, disk, configChanged, statusMsg, cmds>>
    /\ IF leave
       THEN mode' = prevMode /\ ui' = [ui EXCEPT !.editingTask = Nil]
       ELSE UNCHANGED <<mode, ui>>
    /\ UNCHANGED <<repo, prevMode, listTasks, syncInProgress, pullInProgress,
                   remoteConfig, firstRunStep, firstRunError>>

\* handleTaskDetail, "esc" (leave = TRUE): the notes are saved when they
\* differ, the lists are not rebuilt; "ctrl+s" (leave = FALSE): the notes
\* are saved and the view stays
TaskDetailSave(leave) ==
    /\ mode = taskDetailView
    /\ LET i == IF ui.editingTask = Nil THEN 0
                ELSE IndexOfID(config.Tasks, ui.editingTask.ID)
           notes == TrimSpace(ui.notesTextarea)
       IN  IF i # 0 /\ (~leave \/ config.Tasks[i].Notes # notes)
           THEN /\ now < MaxTime
                /\ now' = now + 1
                /\ config' = saveConfig(
                     [config EXCEPT !.Tasks = NotedTasks(@, i, notes)], now')
                /\ disk' = config'
                /\ configChanged' = TRUE
                /\ statusMsg' = "Notes saved"
                /\ cmds' = Written(cmds)
           ELSE UNCHANGED <<now, config, disk, configChanged, statusMsg, cmds>>
    /\ IF leave
       THEN mode' = prevMode /\ ui' = [ui EXCEPT !.editingTask = Nil]
       ELSE UNCHANGED <<mode, ui>>
    /\ UNCHANGED <<repo, prevMode, listTasks, syncInProgress, pullInProgress,
                   remoteConfig, firstRunStep, firstRunError>>

\* "d": confirmDelete on the selected item
confirmDelete ==
    /\ InMainView
    /\ \E sel \in ListItems(mode = completedView) :
        ui' = [ui EXCEPT !.taskToDelete = sel]
    /\ prevMode' = mode
    /\ mode' = deleteConfirmView
    /\ UNCHANGED <<now, disk, repo, config, listTasks, statusMsg,
                   configChanged, syncInProgress, pullInProgress,
                   remoteConfig, firstRunStep, firstRunError, cmds>>

\* the loop of deleteTask over m.config.Tasks
WithoutTask(tasks, id) ==
    LET i == IndexOfID(tasks, id)
    IN  IF i = 0 THEN tasks
        ELSE SubSeq(tasks, 1, i - 1) \o SubSeq(tasks, i + 1, Len(tasks))

\* handleDeleteConfirm, "y", "Y" with m.taskToDelete set: deleteTask
deleteTask ==
    /\ mode = deleteConfirmView
    /\ ui.taskToDelete # Nil
    /\ now < MaxTime
    /\ now' = now + 1
    /\ config' = saveConfig(
            [config EXCEPT !.Tasks = WithoutTask(@, ui.taskToDelete.ID)], now')
    /\ disk' = config'
    /\ configChanged' = TRUE
    /\ listTasks' = config'.Tasks
    /\ statusMsg' = "Task deleted"
    /\ ui' = [ui EXCEPT !.taskToDelete = Nil]
    /\ mode' = prevMode
    /\ cmds' = Written(cmds)
    /\ UNCHANGED <<repo, prevMode, syncInProgress, pullInProgress,
                   remoteConfig, firstRunStep, firstRunError>>

\* handleDeleteConfirm, "n", "N", "esc"
DeleteConfirmNo ==
    /\ mode = deleteConfirmView
    /\ ui' = [ui EXCEPT !.taskToDelete = Nil, !.categoryToDelete = Nil]
    /\ mode' = prevMode
    /\ UNCHANGED <<now, disk, repo, config, prevMode, listTasks, statusMsg,
                   configChanged, syncInProgress, pullInProgress,
                   remoteConfig, firstRunStep, firstRunError, cmds>>


----------------------------------------------------------------------------
(* Creating, renaming and deleting categories                              *)

\* what the user may have typed into m.categoryInput
TypedNames == {" Home "}

\* "c": the category list, rebuilt by updateCategoryList
KeyCategories ==
    /\ InMainView
    /\ prevMode' = mode
    /\ mode' = categoryListView
    /\ ui' = [ui EXCEPT !.categoryList = config.Categories]
    /\ UNCHANGED <<now, disk, repo, config, listTasks, statusMsg,
                   configChanged, syncInProgress, pullInProgress,
                   remoteConfig, firstRunStep, firstRunError, cmds>>

\* "C"
KeyNewCategory ==
    /\ InMainView
    /\ prevMode' = mode
    /\ mode' = categoryFormView
    /\ ui' = [ui EXCEPT !.editingCategory = Nil, !.categoryInput = ""]
    /\ UNCHANGED <<now, disk, repo, config, listTasks, statusMsg,
                   configChanged, syncInProgress, pullInProgress,
                   remoteConfig, firstRunStep, firstRunError, cmds>>

\* handleCategoryForm, any other key: m.categoryInput takes it
CategoryFormType ==
    /\ mode = categoryFormView
    /\ \E v \in TypedNames :
        /\ ui.categoryInput # v
        /\ ui' = [ui EXCEPT !.categoryInput = v]
    /\ UNCHANGED <<now, disk, repo, config, mode, prevMode, listTasks,
                   statusMsg, configChanged, syncInProgress, pullInProgress,
                   remoteConfig, firstRunStep, firstRunError, cmds>>

\* handleCategoryForm, "esc"
CategoryFormEsc ==
    /\ mode = categoryFormView
    /\ mode' = prevMode
    /\ ui' = [ui EXCEPT !.editingCategory = Nil]
    /\ UNCHANGED <<now, disk, repo, config, prevMode, listTasks, statusMsg,
                   configChanged, syncInProgress, pullInProgress,
                   remoteConfig, firstRunStep, firstRunError, cmds>>

\* the index of the first category with this ID, 0 if there is none
IndexOfCategory(cats, id) ==
    IF \E i \in DOMAIN cats : cats[i].ID = id
    THEN CHOOSE i \in DOMAIN cats :
            /\ cats[i].ID = id
            /\ \A j \in DOMAIN cats : cats[j].ID = id => i <= j
    ELSE 0

\* the loop of handleCategoryForm over m.config.Categories
RenamedCategories(cats, id, name) ==
    LET i == IndexOfCategory(cats, id)
    IN  IF i = 0 THEN cats ELSE [cats EXCEPT ![i].Name = name]

\* handleCategoryForm, "enter": unless the name is blank the category
\* with the ID of m.editingCategory is renamed, or a category is created
CategoryFormSubmit ==
    /\ mode = categoryFormView
    /\ LET name == TrimSpace(ui.categoryInput)
       IN  IF name # ""
           THEN /\ now < MaxTime
                /\ now' = now + 1
                /\ config' = saveConfig(
                     [config EXCEPT !.Categories =
                        IF ui.editingCategory # Nil
                        THEN RenamedCategories(@, ui.editingCategory.ID, name)
                        ELSE Append(@, Category(generateID(now'), name))],
                     now')
                /\ disk' = config'
                /\ configChanged' = TRUE
                /\ statusMsg' = IF ui.editingCategory # Nil
                                THEN "Category updated"
                                ELSE "Category created"
                /\ ui' = [ui EXCEPT !.editingCategory = Nil,
                                    !.categoryList =
                                        IF ui.editingCategory # Nil
                                        THEN config'.Categories ELSE @]
                /\ cmds' = Written(cmds)
           ELSE /\ ui' = [ui EXCEPT !.editingCategory = Nil]
                /\ UNCHANGED <<now, config, disk, configChanged, statusMsg,
                               cmds>>
    /\ mode' = prevMode
    /\ UNCHANGED <<repo, prevMode, listTasks, syncInProgress, pullInProgress,
                   remoteConfig, firstRunStep, firstRunError>>

\* handleCategoryList, "e" on the selected item
CategoryListEdit ==
    /\ mode = categoryListView
    /\ \E cat \in SetOf(ui.categoryList) :
        ui' = [ui EXCEPT !.editingCategory = cat, !.categoryInput = cat.Name]
    /\ prevMode' = categoryListView
    /\ mode' = categoryFormView
    /\ UNCHANGED <<now, disk, repo, config, listTasks, statusMsg,
                   configChanged, syncInProgress, pullInProgress,
                   remoteConfig, firstRunStep, firstRunError, cmds>>

\* handleCategoryList, "d" on the selected item
CategoryListDelete ==
    /\ mode = categoryListView
    /\ \E cat \in SetOf(ui.categoryList) :
        ui' = [ui EXCEPT !.categoryToDelete = cat]
    /\ prevMode' = categoryListView
    /\ mode' = deleteConfirmView
    /\ UNCHANGED <<now, disk, repo, config, listTasks, statusMsg,
                   configChanged, syncInProgress, pullInProgress,
                   remoteConfig, firstRunStep, firstRunError, cmds>>

\* handleCategoryList, "esc", "q"
CategoryListEsc ==
    /\ mode = categoryListView
    /\ mode' = listView
    /\ UNCHANGED <<now, disk, repo, config, prevMode, listTasks, statusMsg,
                   configChanged, syncInProgress, pullInProgress,
                   remoteConfig, ui, firstRunStep, firstRunError, cmds>>

\* the tasks deleteCategory counts
TasksInCategory(cfg, id) == {i \in DOMAIN cfg.Tasks : cfg.Tasks[i].CategoryID = id}

\* the loop of deleteCategory over m.config.Categories
WithoutCategory(cats, id) ==
    LET i == IndexOfCategory(cats, id)
    IN  IF i = 0 THEN cats
        ELSE SubSeq(cats, 1, i - 1) \o SubSeq(cats, i + 1, Len(cats))

\* a faulty variant: the category is removed whether or not a task is in it
deleteCategoryAnyway ==
    /\ mode = deleteConfirmView
    /\ ui.taskToDelete = Nil
    /\ ui.categoryToDelete # Nil
    /\ now < MaxTime
    /\ now' = now + 1
    /\ config' = saveConfig(
            [config EXCEPT !.Categories =
                WithoutCategory(@, ui.categoryToDelete.ID)], now')
    /\ disk' = config'
    /\ configChanged' = TRUE
    /\ statusMsg' = "Category deleted"
    /\ ui' = [ui EXCEPT !.categoryToDelete = Nil,
                        !.categoryList = config'.Categories]
    /\ cmds' = Written(cmds)
    /\ mode' = prevMode
    /\ UNCHANGED <<repo, prevMode, listTasks, syncInProgress, pullInProgress,
                   remoteConfig, firstRunStep, firstRunError>>

\* handleDeleteConfirm, "y", "Y" with m.taskToDelete nil and
\* m.categoryToDelete set: deleteCategory, refused while a task is in the
\* category
deleteCategory ==
    /\ mode = deleteConfirmView
    /\ ui.taskToDelete = Nil
    /\ ui.categoryToDelete # Nil
    /\ IF TasksInCategory(config, ui.categoryToDelete.ID) # {}
       THEN /\ statusMsg' = "Cannot delete: tasks in category"
            /\ ui' = [ui EXCEPT !.categoryToDelete = Nil]
            /\ UNCHANGED <<now, config, disk, configChanged, cmds>>
       ELSE /\ now < MaxTime
            /\ now' = now + 1
            /\ config' = saveConfig(
                    [config EXCEPT !.Categories =
                        WithoutCategory(@, ui.categoryToDelete.ID)], now')
            /\ disk' = config'
            /\ configChanged' = TRUE
            /\ statusMsg' = "Category deleted"
            /\ ui' = [ui EXCEPT !.categoryToDelete = Nil,
                                !.categoryList = config'.Categories]
            /\ cmds' = Written(cmds)
    /\ mode' = prevMode
    /\ UNCHANGED <<repo, prevMode, listTasks, syncInProgress, pullInProgress,
                   remoteConfig, firstRunStep, firstRunError>>

----------------------------------------------------------------------------
(* Editing: an installation whose set-up was skipped in an earlier         *)
(* session and which holds the default Config, or the default Config with  *)
(* its first task completed.  The program shows the list, or the conflict  *)
(* view after "g" found the older Config of another machine in the         *)
(* repository.  The keys of the list, of the forms and of the two          *)
(* confirmation views.                                                     *)

EditedConfigs ==
    LET d == [defaultConfig(1) EXCEPT !.GitHubSetupComplete = TRUE]
    IN  {saveConfig(d, 2),
         saveConfig([d EXCEPT !.Tasks = ToggledTasks(@, "1", 2)], 2)}

InitEdit ==
    /\ now = 2
    /\ repo = RepoDoc(OtherMachineConfig(1))
    /\ disk \in EditedConfigs
    /\ config = disk
    /\ \/ mode = listView /\ statusMsg = "" /\ remoteConfig = Nil
       \/ /\ mode = pullConfirmView
          /\ statusMsg = "Conflict detected - choose merge strategy"
          /\ remoteConfig = repo.doc
    /\ prevMode = listView
    /\ listTasks = config.Tasks
    /\ configChanged = FALSE
    /\ syncInProgress = FALSE
    /\ pullInProgress = FALSE
    /\ firstRunStep = welcomeStep
    /\ firstRunError = ""
    /\ cmds = EmptyBag
    /\ ui = InitialUI

NextEdit ==
    \/ KeyCompleted
    \/ toggleTask
    \/ KeyNewTask
    \/ FormNextField(taskFormView)
    \/ FormUpDown(taskFormView)
    \/ FormType(taskFormView)
    \/ TaskFormEsc
    \/ TaskFormSubmit
    \/ startEditTask
    \/ FormNextField(editTaskView)
    \/ FormUpDown(editTaskView)
    \/ FormType(editTaskView)
    \/ TaskEditEsc
    \/ TaskEditSubmit
    \/ viewTaskDetail
    \/ TaskDetailType
    \/ TaskDetailSave(TRUE)
    \/ TaskDetailSave(FALSE)
    \/ confirmDelete
    \/ deleteTask
    \/ DeleteConfirmNo
    \/ PullConfirmKeepLocal
    \/ PullConfirmUseRemote
    \/ PullConfirmMerge
    \/ PullConfirmCancel

SpecEdit == InitEdit /\ [][NextEdit]_vars

\* C29: in every Config the program holds or has written, a task is done
\* exactly when its CompletedAt is not the zero time.
TracksDone(cfg) ==
    \A t \in SetOf(cfg.Tasks) : t.Done <=> t.CompletedAt # 0

----------------------------------------------------------------------------
(* The dashboard/list program (model.go, config.go): its Config is a list  *)
(* of priority groups, its form a formModel.  The variables hold its       *)
(* state: config, disk, mode, prevMode, statusMsg as above, ui its cursor  *)
(* and its form; the others do not change.                                 *)

dashboardView == "dashboardView"
formView == "formView"

PHHomelab == 4
PDev == 5

\* config.go Task, without Tags
GroupTask(id, content, prio, completed, created, completedAt) ==
    [ID |-> id, Content |-> content, Description |-> "", URL |-> "",
     Priority |-> prio, Completed |-> completed, CreatedAt |-> created,
     CompletedAt |-> completedAt]

TaskGroup(name, prio, tasks) ==
    [Name |-> name, Priority |-> prio, Tasks |-> tasks]

\* DefaultConfig(), its "Priority 1: High" group holding the given tasks
DefaultConfig(t, tasks) ==
    [Groups |-> <<TaskGroup("Priority 0: Critical", P0Critical, <<>>),
                  TaskGroup("Priority 1: High", P1High, tasks),
                  TaskGroup("Homelab Infrastructure", PHHomelab, <<>>),
                  TaskGroup("Development", PDev, <<>>)>>,
     LastUpdate |-> t, Version |-> "1.0.0"]

\* Config.Save: stamps LastUpdate and writes the file
Save(cfg, t) == [cfg EXCEPT !.LastUpdate = t]

\* the zero formModel, the cursor of NewModel, and msg: the key that
\* Update handled last
InitialDashboardUI ==
    [cursor |-> 0, msg |-> "",
     form |-> [focusIndex |-> 0, inputs |-> <<>>, priority |-> P0Critical,
               editingTask |-> Nil]]

\* newTaskForm(task): inputs are content, description, URL, priority
newTaskForm(task) ==
    IF task = Nil
    THEN [focusIndex |-> 0, inputs |-> <<"", "", "", "1">>,
          priority |-> P1High, editingTask |-> Nil]
    ELSE [focusIndex |-> 0,
          inputs |-> <<task.Content, task.Description, task.URL,
                       PriorityDigits(task.Priority)>>,
          priority |-> task.Priority, editingTask |-> task]

NotCompleted(t) == ~t.Completed

\* the tasks of the groups g, g+1, ... that are not completed
RECURSIVE VisibleFrom(_, _)
VisibleFrom(cfg, g) ==
    IF g > Len(cfg.Groups) THEN <<>>
    ELSE SelectSeq(cfg.Groups[g].Tasks, NotCompleted)
            \o VisibleFrom(cfg, g + 1)

getVisibleTasks(cfg) == VisibleFrom(cfg, 1)

\* the position <<gi, ti>> of the first task with this ID in the order of
\* the two nested loops, <<0, 0>> if there is none
PositionOfID(cfg, id) ==
    LET all == UNION {{<<g, i>> : i \in DOMAIN cfg.Groups[g].Tasks} :
                        g \in DOMAIN cfg.Groups}
        hits == {p \in all : cfg.Groups[p[1]].Tasks[p[2]].ID = id}
    IN  IF hits = {} THEN <<0, 0>>
        ELSE CHOOSE p \in hits :
                \A q \in hits : p[1] < q[1] \/ (p[1] = q[1] /\ p[2] <= q[2])

RemoveAt(seq, i) == SubSeq(seq, 1, i - 1) \o SubSeq(seq, i + 1, Len(seq))

\* model.toggleTask of model.go: <<Config, status>>
DashboardToggled(cfg, cursor, t, status) ==
    LET tasks == getVisibleTasks(cfg)
        p == IF cursor >= Len(tasks) THEN <<0, 0>>
             ELSE PositionOfID(cfg, tasks[cursor + 1].ID)
    IN  IF p = <<0, 0>> THEN <<cfg, status>>
        ELSE LET old == cfg.Groups[p[1]].Tasks[p[2]]
             IN  <<[cfg EXCEPT !.Groups[p[1]].Tasks[p[2]] =
                        [old EXCEPT !.Completed = ~old.Completed,
                                    !.CompletedAt = IF ~old.Completed
                                                    THEN t ELSE @]],
                   IF ~old.Completed THEN "Task completed!"
                   ELSE "Task reopened">>

\* model.deleteTask of model.go: <<Config, status, cursor>>
DashboardDeleted(cfg, cursor, status) ==
    LET tasks == getVisibleTasks(cfg)
        p == IF cursor >= Len(tasks) THEN <<0, 0>>
             ELSE PositionOfID(cfg, tasks[cursor + 1].ID)
    IN  IF p = <<0, 0>> THEN <<cfg, status, cursor>>
        ELSE <<[cfg EXCEPT !.Groups[p[1]].Tasks = RemoveAt(@, p[2])],
               "Task deleted",
               IF cursor > 0 THEN cursor - 1 ELSE cursor>>

\* model.addTaskToGroup
addTaskToGroup(cfg, task) ==
    LET same == {g \in DOMAIN cfg.Groups :
                    cfg.Groups[g].Priority = task.Priority}
        g == IF same # {} THEN CHOOSE x \in same : \A y \in same : x <= y
             ELSE IF Len(cfg.Groups) > 0 THEN 1 ELSE 0
    IN  IF g = 0 THEN cfg
        ELSE [cfg EXCEPT !.Groups[g].Tasks = Append(@, task)]

\* model.saveTask
saveTask(cfg, form, task) ==
    LET p == IF form.editingTask = Nil THEN <<0, 0>>
             ELSE PositionOfID(cfg, form.editingTask.ID)
    IN  IF p = <<0, 0>> THEN addTaskToGroup(cfg, task)
        ELSE IF cfg.Groups[p[1]].Tasks[p[2]].Priority # task.Priority
        THEN addTaskToGroup(
                [cfg EXCEPT !.Groups[p[1]].Tasks = RemoveAt(@, p[2])], task)
        ELSE [cfg EXCEPT !.Groups[p[1]].Tasks[p[2]] = task]

\* generateTaskID(): uuid.New().String()[:8]
generateTaskID(t) ==
    CASE t = 0 -> "0b1e6f00" [] t = 1 -> "0b1e6f01" [] t = 2 -> "0b1e6f02"
      [] t = 3 -> "0b1e6f03" [] t = 4 -> "0b1e6f04" [] OTHER -> "0b1e6f05"

\* formModel.getTask: Nil when the content is blank
getTask(form, t) ==
    LET content == TrimSpace(form.inputs[1])
        base == IF form.editingTask # Nil THEN form.editingTask
                ELSE GroupTask(generateTaskID(t), "", P0Critical, FALSE, t, 0)
    IN  IF content = "" THEN Nil
        ELSE [base EXCEPT !.Content = content,
                          !.Description = TrimSpace(form.inputs[2]),
                          !.URL = TrimSpace(form.inputs[3]),
                          !.Priority = form.priority]


\* keyMap
keysUp == {"up", "k"}
keysDown == {"down", "j"}
keysToggle == {"enter", " "}
keysDelete == {"d", "x"}
keysAdd == {"a", "n"}
keysView == {"tab"}
keysHelp == {"?"}
keysRefresh == {"r"}
keysQuit == {"q", "ctrl+c"}

\* the keys pressed: one or two of each binding of keyMap, those of the
\* second switch and of formModel.Update, and a letter that no case takes
PressedKeys ==
    {"up", "down", "enter", " ", "d", "a", "tab", "?", "r", "q",
     "e", "esc", "shift+tab", "m"}

\* the values the focused input (content, description, URL, priority) can
\* have after a letter was typed
TypedInto(i) ==
    CASE i = 1 -> {"", " mum "}
      [] i = 2 -> {" by phone "}
      [] i = 3 -> {" tel:1 "}
      [] OTHER -> {"", "5"}

\* formModel.updateInputs: the priority preview
PreviewedPriority(form) ==
    CASE form.inputs[4] = "0" -> P0Critical
      [] form.inputs[4] = "1" -> P1High
      [] form.inputs[4] = "2" -> P2Medium
      [] form.inputs[4] = "3" -> P3Low
      [] form.inputs[4] = "4" -> PHHomelab
      [] form.inputs[4] = "5" -> PDev
      [] OTHER -> form.priority

\* formModel.Update: "ctrl+c" and "esc" return the form as it is; "tab",
\* "shift+tab", "up", "down" move the focus over the inputs and the Save
\* button; any other key goes to the inputs
FormUpdated(form, k) ==
    IF k \in {"ctrl+c", "esc"} THEN {form}
    ELSE IF k \in {"tab", "shift+tab", "up", "down"}
    THEN LET f == IF k \in {"up", "shift+tab"} THEN form.focusIndex - 1
                  ELSE form.focusIndex + 1
         IN  {[form EXCEPT !.focusIndex =
                    IF f > Len(form.inputs) THEN 0
                    ELSE IF f < 0 THEN Len(form.inputs) ELSE f]}
    ELSE IF form.focusIndex < Len(form.inputs)
    THEN {[g EXCEPT !.priority = PreviewedPriority(g)] :
            g \in {[form EXCEPT !.inputs[form.focusIndex + 1] = v] :
                        v \in TypedInto(form.focusIndex + 1)}}
    ELSE {[form EXCEPT !.priority = PreviewedPriority(form)]}

\* what the dashboard program leaves alone
dashboardUnused ==
    <<repo, listTasks, configChanged, syncInProgress, pullInProgress,
      remoteConfig, firstRunStep, firstRunError, cmds>>

Handled(u, k) == [u EXCEPT !.msg = k]

\* model.Update of model.go on the key k: the first switch in the order of
\* its cases, then the second switch, then the form
DashboardUpdate(k) ==
    /\ mode \in {dashboardView, listView, formView}
    /\ UNCHANGED dashboardUnused
    /\ IF k \in keysQuit
       THEN /\ now < MaxTime
            /\ now' = now + 1
            /\ config' = Save(config, now')
            /\ disk' = config'
            /\ mode' = notRunning
            /\ UNCHANGED <<prevMode, statusMsg>> /\ ui' = Handled(ui, k)
       ELSE IF k \in keysView
       THEN /\ mode' = IF mode = dashboardView THEN listView
                       ELSE dashboardView
            /\ UNCHANGED <<now, config, disk, prevMode, statusMsg>> /\ ui' = Handled(ui, k)
       ELSE IF k \in keysHelp
       THEN /\ UNCHANGED <<now, config, disk, mode, prevMode, statusMsg>>
            /\ ui' = Handled(ui, k)
       ELSE IF k \in keysRefresh
       THEN /\ \E ok \in BOOLEAN :
                IF ok
                THEN config' = disk /\ statusMsg' = "Configuration reloaded!"
                ELSE UNCHANGED config /\ statusMsg' = "Error: open"
            /\ UNCHANGED <<now, disk, mode, prevMode>> /\ ui' = Handled(ui, k)
       ELSE IF k \in keysUp
       THEN /\ ui' = [Handled(ui, k) EXCEPT !.cursor = IF @ > 0 THEN @ - 1 ELSE @]
            /\ UNCHANGED <<now, config, disk, mode, prevMode, statusMsg>>
       ELSE IF k \in keysDown
       THEN /\ ui' = [Handled(ui, k) EXCEPT !.cursor =
                        IF @ < Len(getVisibleTasks(config)) - 1
                        THEN @ + 1 ELSE @]
            /\ UNCHANGED <<now, config, disk, mode, prevMode, statusMsg>>
       ELSE IF k \in keysToggle
       THEN /\ IF mode = listView
               THEN /\ now < MaxTime
                    /\ now' = now + 1
                    /\ LET r == DashboardToggled(config, ui.cursor, now',
                                                 statusMsg)
                       IN  config' = Save(r[1], now') /\ statusMsg' = r[2]
                    /\ disk' = config'
               ELSE UNCHANGED <<now, config, disk, statusMsg>>
            /\ UNCHANGED <<mode, prevMode>> /\ ui' = Handled(ui, k)
       ELSE IF k \in keysDelete
       THEN /\ IF mode = listView
               THEN /\ now < MaxTime
                    /\ now' = now + 1
                    /\ LET r == DashboardDeleted(config, ui.cursor, statusMsg)
                       IN  /\ config' = Save(r[1], now')
                           /\ statusMsg' = r[2]
                           /\ ui' = [Handled(ui, k) EXCEPT !.cursor = r[3]]
                    /\ disk' = config'
               ELSE UNCHANGED <<now, config, disk, statusMsg>> /\ ui' = Handled(ui, k)
            /\ UNCHANGED <<mode, prevMode>>
       ELSE IF k \in keysAdd
       THEN /\ IF mode # formView
               THEN /\ prevMode' = mode
                    /\ mode' = formView
                    /\ ui' = [Handled(ui, k) EXCEPT !.form = newTaskForm(Nil)]
               ELSE UNCHANGED <<mode, prevMode>> /\ ui' = Handled(ui, k)
            /\ UNCHANGED <<now, config, disk, statusMsg>>
       ELSE IF k = "e"
       THEN /\ IF mode = listView
                    /\ ui.cursor < Len(getVisibleTasks(config))
               THEN /\ prevMode' = mode
                    /\ mode' = formView
                    /\ ui' = [Handled(ui, k) EXCEPT !.form =
                        newTaskForm(getVisibleTasks(config)[ui.cursor + 1])]
               ELSE UNCHANGED <<mode, prevMode>> /\ ui' = Handled(ui, k)
            /\ UNCHANGED <<now, config, disk, statusMsg>>
       ELSE IF k = "enter"
       THEN /\ IF /\ mode = formView
                  /\ ui.form.focusIndex = Len(ui.form.inputs)
                  /\ getTask(ui.form, now) # Nil
               THEN /\ now < MaxTime
                    /\ now' = now + 1
                    /\ config' = Save(saveTask(config, ui.form,
                                        getTask(ui.form, now')), now')
                    /\ disk' = config'
                    /\ mode' = prevMode
                    /\ statusMsg' = "Task saved!"
               ELSE UNCHANGED <<now, config, disk, mode, statusMsg>>
            /\ UNCHANGED <<prevMode>> /\ ui' = Handled(ui, k)
       ELSE /\ IF mode = formView
               THEN ui' \in {[Handled(ui, k) EXCEPT !.form = f] :
                                f \in FormUpdated(ui.form, k)}
               ELSE ui' = Handled(ui, k)
            /\ UNCHANGED <<now, config, disk, mode, prevMode, statusMsg>>


\* NewModel(cfg) on the Config read from the file: the groups of
\* DefaultConfig, empty or with two tasks
DashboardConfigs ==
    {DefaultConfig(2, <<>>),
     DefaultConfig(2, <<GroupTask("0b1e6f0a", "write report", P1High, FALSE, 1, 0),
                        GroupTask("0b1e6f0b", "buy milk", P1High, FALSE, 1, 0)>>)}

InitDashboard ==
    /\ now = 2
    /\ disk \in DashboardConfigs
    /\ config = disk
    /\ mode = dashboardView
    /\ prevMode = dashboardView
    /\ statusMsg = ""
    /\ ui = InitialDashboardUI
    /\ repo = RepoAbsent
    /\ listTasks = <<>>
    /\ configChanged = FALSE
    /\ syncInProgress = FALSE
    /\ pullInProgress = FALSE
    /\ remoteConfig = Nil
    /\ firstRunStep = welcomeStep
    /\ firstRunError = ""
    /\ cmds = EmptyBag

NextDashboard == \E k \in PressedKeys : DashboardUpdate(k)

SpecDashboard == InitDashboard /\ [][NextDashboard]_vars

\* the tasks of all the groups of cfg
AllTasks(cfg) ==
    UNION {SetOf(cfg.Groups[g].Tasks) : g \in DOMAIN cfg.Groups}

\* the form is open, the Save button has the focus, the content is not blank
SaveButtonReady ==
    /\ mode = formView
    /\ ui.form.focusIndex = Len(ui.form.inputs)
    /\ TrimSpace(ui.form.inputs[1]) # ""

\* C30: in the form of the dashboard/list program, "enter" with the Save
\* button focused and a non-blank content saves the task into the Config
\* (in memory and in the file) and returns to the previous view; "esc"
\* returns to the previous view and saves nothing.
C30_FormEnterSavesEscReturns ==
    [][/\ (SaveButtonReady /\ ui'.msg = "enter")
            => /\ mode' = prevMode
               /\ \E t \in AllTasks(config') :
                    t.Content = TrimSpace(ui.form.inputs[1])
               /\ disk' = config'
       /\ (mode = formView /\ ui'.msg = "esc")
            => /\ mode' = prevMode
               /\ config' = config /\ disk' = disk]_vars

\* the keys of the form reach it: with the Save button focused and a
\* content typed, the form is still shown after "enter" or "esc"
FormStaysOpen ==
    [][(SaveButtonReady /\ ui'.msg \in {"enter", "esc"})
            => mode' = formView /\ config' = config /\ disk' = disk]_vars


----------------------------------------------------------------------------
(* Every operation on tasks and categories: the installation above after   *)
(* a category "Home" was created in an earlier session and the third task  *)
(* moved into it, showing the list or the conflict view; the keys of       *)
(* NextEdit and those of the category                                      *)
(* list, the category form and the confirmation of a category's deletion.  *)

MutatedConfig ==
    saveConfig([defaultConfig(1) EXCEPT
                    !.GitHubSetupComplete = TRUE,
                    !.Categories = Append(@, Category(generateID(1), "Home")),
                    !.Tasks = EditedTasks(@, "3", @[3].Content, @[3].Priority,
                                          generateID(1))],
               2)

InitMutate ==
    /\ now = 2
    /\ repo = RepoDoc(OtherMachineConfig(1))
    /\ disk = MutatedConfig
    /\ config = disk
    /\ \/ mode = listView /\ statusMsg = "" /\ remoteConfig = Nil
       \/ /\ mode = pullConfirmView
          /\ statusMsg = "Conflict detected - choose merge strategy"
          /\ remoteConfig = repo.doc
    /\ prevMode = listView
    /\ listTasks = config.Tasks
    /\ configChanged = FALSE
    /\ syncInProgress = FALSE
    /\ pullInProgress = FALSE
    /\ firstRunStep = welcomeStep
    /\ firstRunError = ""
    /\ cmds = EmptyBag
    /\ ui = InitialUI

NextMutate ==
    \/ NextEdit
    \/ KeyCategories
    \/ KeyNewCategory
    \/ CategoryFormType
    \/ CategoryFormEsc
    \/ CategoryFormSubmit
    \/ CategoryListEdit
    \/ CategoryListDelete
    \/ CategoryListEsc
    \/ deleteCategory

SpecMutate == InitMutate /\ [][NextMutate]_vars


\* C31: a key handled outside the conflict view (the list, the forms, the
\* detail view, the category list, the delete confirmation) that changes
\* m.config writes it to the file in the same step and leaves
\* m.configChanged set; one that does not change m.config leaves the file
\* and m.configChanged as they were.
C31_MutationsPersistedAndMarked ==
    [][mode # pullConfirmView
        => IF config' # config
           THEN disk' = config' /\ configChanged'
           ELSE disk' = disk /\ configChanged' = configChanged]_vars

\* a category without tasks has been deleted after its confirmation
C31_Witness ==
    /\ statusMsg = "Category deleted"
    /\ Len(config.Categories) = 2
    /\ disk = config
    /\ configChanged


----------------------------------------------------------------------------
(* The flag after a push                                                   *)

\* the repository holds what another machine pushed
PushedElsewhere == repo.kind = "doc" /\ repo.doc \in RemoteConfigs

\* C32: when Update processes, outside the first-run setup, the message of
\* a push that succeeded and m.configChanged is false afterwards, the
\* repository holds the Config of the file as it is now (unless another
\* machine has pushed since): an edit saved while the push was under way
\* keeps the flag set.
C32_FlagTruthfulAfterPush ==
    [][\A msg \in BagToSet(cmds) :
        (SyncResultMsg(msg) /\ msg.success /\ mode # firstRunView
            /\ ~configChanged')
        => (repo = RepoDoc(disk) \/ PushedElsewhere)]_vars


----------------------------------------------------------------------------
(* An edit while a pull is under way                                       *)

\* C33: when Update processes, outside the first-run setup, the message of
\* a pull that succeeded while m.config.LastUpdate is after the LastUpdate
\* of the Config fetched, m.config is not replaced by the Config fetched:
\* the edit made since the pull started is kept.
C33_NoEditLostToPull ==
    [][\A msg \in BagToSet(cmds) :
        (InteractivePullResult(msg)
            /\ config.LastUpdate > msg.remoteConfig.LastUpdate)
        => config' = config]_vars


----------------------------------------------------------------------------
(* Merging Configs that repeat an ID                                       *)
(*                                                                         *)
(* loadConfig and the pull unmarshal whatever JSON they are given, so a    *)
(* Config may hold two tasks or two categories with one ID.  The program   *)
(* is in pullConfirmView with a local and a remote Config whose lists are  *)
(* drawn, with repetition, from the pools below, and "m" is pressed.       *)

MaxListLen == 2

DupLocalTasks ==
    {Task("1", "write report", "work", P1High, FALSE, 1, 0),
     Task("2", "buy milk", "work", P2Medium, FALSE, 1, 0)}

DupRemoteTasks ==
    {Task("1", "write the report", "home", P0Critical, TRUE, 2, 2),
     Task("1", "report", "work", P3Low, FALSE, 1, 0)}

DupLocalCategories == {Category("work", "Work"), Category("work", "Office")}

DupRemoteCategories == {Category("work", "Office"), Category("home", "Home")}

ListsOver(S) == UNION {[1..n -> S] : n \in 0..MaxListLen}

DupConfigs(categories, tasks, lu) ==
    {Config(cs, ts, lu, "1.3.0", TRUE) :
        cs \in ListsOver(categories), ts \in ListsOver(tasks)}

InitMergeDup ==
    /\ now = 2
    /\ config \in DupConfigs(DupLocalCategories, DupLocalTasks, 2)
    /\ remoteConfig \in DupConfigs(DupRemoteCategories, DupRemoteTasks, 1)
    /\ repo = RepoDoc(remoteConfig)
    /\ disk = config
    /\ mode = pullConfirmView
    /\ prevMode = listView
    /\ listTasks = config.Tasks
    /\ statusMsg = "Conflict detected - choose merge strategy"
    /\ configChanged = TRUE
    /\ syncInProgress = FALSE
    /\ pullInProgress = FALSE
    /\ firstRunStep = welcomeStep
    /\ firstRunError = ""
    /\ cmds = EmptyBag
    /\ ui = InitialUI

NextMergeDup == PullConfirmMerge

SpecMergeDup == InitMergeDup /\ [][NextMergeDup]_vars

\* the IDs of a list of tasks or categories
IDsOf(list) == {list[i].ID : i \in DOMAIN list}

\* no two entries of the list have one ID
UniqueIDs(list) ==
    \A i, j \in DOMAIN list : list[i].ID = list[j].ID => i = j

\* C34: the Config a merge leaves has each task ID and each category ID at
\* most once, and its IDs are exactly those of the local and the remote
\* side together, whether or not a side repeats an ID.
C34_MergeUniqueUnion ==
    [][(PullConfirmMerge /\ remoteConfig # Nil)
        => /\ UniqueIDs(config'.Tasks)
           /\ UniqueIDs(config'.Categories)
           /\ IDsOf(config'.Tasks)
                = IDsOf(config.Tasks) \cup IDsOf(remoteConfig.Tasks)
           /\ IDsOf(config'.Categories)
                = IDsOf(config.Categories)
                    \cup IDsOf(remoteConfig.Categories)]_vars

\* a merge has been made of a remote Config that had one task ID twice
\* and one category ID twice; the merged Config has fewer of both
C34_Witness ==
    /\ statusMsg = "Merged local and remote"
    /\ ~UniqueIDs(repo.doc.Tasks)
    /\ ~UniqueIDs(repo.doc.Categories)
    /\ Len(config.Tasks) < Len(repo.doc.Tasks)
    /\ Len(config.Categories) < Len(repo.doc.Categories)


----------------------------------------------------------------------------
(* Referential integrity                                                   *)

\* every task of cfg is in a category of cfg
Intact(cfg) ==
    \A i \in DOMAIN cfg.Tasks : cfg.Tasks[i].CategoryID \in IDsOf(cfg.Categories)

\* C35: every task of m.config and of the file names, by its CategoryID,
\* a category of the same Config, whatever tasks were created or edited,
\* categories created, renamed or deleted, and whether the remote Config
\* was taken or merged.
C35_ReferentialIntegrity == Intact(config) /\ Intact(disk)

\* a task was created in the category "Home", and the deletion of that
\* category has then been refused
C35_Witness ==
    /\ statusMsg = "Cannot delete: tasks in category"
    /\ Len(config.Tasks) = 4
    /\ config.Tasks[4].CategoryID = generateID(1)
    /\ Len(config.Categories) = 3


----------------------------------------------------------------------------
(* What the edit form and the notes change                                 *)

\* the ID of m.editingTask, "" when it is nil
EditingID == IF ui.editingTask = Nil THEN "" ELSE ui.editingTask.ID

\* in this step the categories and the number of tasks stay, and a task
\* changes only if its ID is id
OnlyTaskChanged(id) ==
    /\ config'.Categories = config.Categories
    /\ Len(config'.Tasks) = Len(config.Tasks)
    /\ \A i \in DOMAIN config.Tasks :
        config.Tasks[i].ID # id => config'.Tasks[i] = config.Tasks[i]

\* in this step the tasks with the ID id keep every field but those of
\* the edit form
OnlyFormFieldsChanged(id) ==
    \A i \in DOMAIN config.Tasks :
        config.Tasks[i].ID = id
        => config'.Tasks[i]
            = [config.Tasks[i] EXCEPT
                    !.Content = config'.Tasks[i].Content,
                    !.Priority = config'.Tasks[i].Priority,
                    !.CategoryID = config'.Tasks[i].CategoryID]

\* in this step the tasks with the ID id keep every field but Notes
OnlyNotesChanged(id) ==
    \A i \in DOMAIN config.Tasks :
        config.Tasks[i].ID = id
        => config'.Tasks[i]
            = [config.Tasks[i] EXCEPT !.Notes = config'.Tasks[i].Notes]

\* C36: submitting the edit form changes only Content, Priority and
\* CategoryID, and saving the notes only Notes, of the task with the ID of
\* the task that was selected; its ID, CreatedAt, Done and CompletedAt,
\* every other task and every category stay as they are.
C36_EditsTouchOnlyTheirFields ==
    [][/\ TaskEditSubmit
            => OnlyTaskChanged(EditingID) /\ OnlyFormFieldsChanged(EditingID)
       /\ (TaskDetailSave(TRUE) \/ TaskDetailSave(FALSE))
            => OnlyTaskChanged(EditingID) /\ OnlyNotesChanged(EditingID)]_vars

\* the edit form has been submitted for the completed task "1": it has the
\* content typed and is still done
C36_Witness ==
    /\ statusMsg = "Task updated"
    /\ \E i \in DOMAIN config.Tasks :
        /\ config.Tasks[i].ID = "1"
        /\ config.Tasks[i].Content = "call mum"
        /\ config.Tasks[i].Done
        /\ config.Tasks[i].CompletedAt = 2


----------------------------------------------------------------------------
(* The confirmation of a deletion while a pull runs: the set-up            *)
(* installation of InitViews, "g" and the pull's goroutine and message,    *)
(* the keys of the conflict view, "d" on a task, "c" and "d" on a          *)
(* category, and the keys of the confirmation.                             *)

NextConfirm ==
    \/ KeyPull
    \/ \E c \in BagToSet(cmds) : PullRun(c)
    \/ \E c \in BagToSet(cmds) : PullResultMsg(c)
    \/ PullConfirmKeepLocal
    \/ PullConfirmUseRemote
    \/ PullConfirmMerge
    \/ PullConfirmCancel
    \/ confirmDelete
    \/ deleteTask
    \/ DeleteConfirmNo
    \/ KeyCategories
    \/ CategoryListDelete
    \/ CategoryListEsc
    \/ deleteCategory

SpecConfirm == InitViews /\ [][NextConfirm]_vars

\* C37: m.taskToDelete and m.categoryToDelete are never both set, and both
\* are nil whenever the view shown is not the confirmation of a deletion,
\* also after the message of a pull was handled while the confirmation
\* was open.
C37_DeleteTargets ==
    /\ ~(ui.taskToDelete # Nil /\ ui.categoryToDelete # Nil)
    /\ mode # deleteConfirmView
        => ui.taskToDelete = Nil /\ ui.categoryToDelete = Nil

====
